---------------------------- MODULE Spec2Model ----------------------------
(***************************************************************************)
(* Image <-> text manifest codec (app/image_to_text_full_v3.py) and the    *)
(* FastAPI service in front of it (app/main.py).                           *)
(*                                                                         *)
(* Text is modelled as a sequence of lines.  A line is a record            *)
(*   [w |-> <<words>>, d |-> <<integers>>]                                 *)
(* where w holds the literal words of the line (strings) and d holds its   *)
(* character or number data: the base64 characters of a wrapped body line, *)
(* the digits of a number, the value of a digest.  The empty line is       *)
(* [w |-> <<>>, d |-> <<>>].                                               *)
(*                                                                         *)
(* Base64 characters are their alphabet index 0..63 ('A' = 0, 'Q' = 16,    *)
(* '/' = 63); PAD is '=', SP a blank and JUNK any other ASCII character    *)
(* outside the alphabet.                                                   *)
(***************************************************************************)
EXTENDS Integers, Sequences, FiniteSets, TLC

VARIABLES
    pc,             \* where the call or request stands
    manifest_text,  \* the manifest, a sequence of lines
    out,            \* the outcome of the decode call
    written,        \* the files written to output_dir, in order
    blob,           \* lossless: the bytes of the image file
    chunk_size,     \* lossless: encode's chunk_size
    line_width,     \* lossless: encode's line_width
    meta,           \* lossless: what the image decoder reports (software, icc, exif)
    tampered,       \* lossless: a character of a chunk body was replaced
    seq,            \* run-length codec: the input sequence
    pairs,          \* run-length codec: _rle_encode's result
    expanded,       \* run-length codec: _rle_decode's result
    image,          \* lossy-algo: the decoded input image
    params,         \* lossy-algo: the encoder's parameters; of a hand-made manifest, its parts
    payload,        \* lossy-algo: the JSON payload of the manifest
    request,        \* service: the decode request (endpoint, content type, origin of the text)
    response,       \* service: the response (status, detail)
    invoked,        \* the tier decoder that was called, "none" if none
    tmp_file,       \* service: the content of the staging file /tmp/upload.png
    reqs            \* service: the in-flight encode requests

commonVars == <<pc, manifest_text, out, written>>
losslessVars == <<blob, chunk_size, line_width, meta, tampered>>
rleVars == <<seq, pairs, expanded>>
algoVars == <<image, params, payload>>
serviceVars == <<request, response, invoked>>
stagingVars == <<tmp_file, reqs>>

vars == <<commonVars, losslessVars, rleVars, algoVars, serviceVars, stagingVars>>

\* ------------------------------------------------------------------ bounds
MaxBytes == 4
MaxChunk == 4
MaxWidth == 2

\* -------------------------------------------------------- character codes
PAD == 64
SP == 65
JUNK == 66

ByteVals == {65, 255}
TamperAlphabet == {0, 17, 63, PAD, SP, JUNK}

\* ------------------------------------------------------ generic helpers
Min(a, b) == IF a < b THEN a ELSE b
Max(a, b) == IF a > b THEN a ELSE b

SeqsUpTo(S, n) == UNION {[1..k -> S] : k \in 0..n}
NonEmptySeqs(S, n) == UNION {[1..k -> S] : k \in 1..n}

RECURSIVE Flatten(_)
Flatten(ss) == IF ss = <<>> THEN <<>> ELSE Head(ss) \o Flatten(Tail(ss))

RECURSIVE SumSeq(_)
SumSeq(s) == IF s = <<>> THEN 0 ELSE Head(s) + SumSeq(Tail(s))

CeilDiv(a, b) == (a + b - 1) \div b

Line(words, data) == [w |-> words, d |-> data]
Blank == Line(<<>>, <<>>)
None == Line(<<>>, <<>>)

\* --------------------------------------------------------------- digests
\* hashlib digests are modelled as collision free: the digest of b is b
\* under a tag naming the algorithm.
_sha256(b) == <<256>> \o b
_md5(b) == <<5>> \o b

\* ---------------------------------------------------------------- base64
\* base64.b64encode: three bytes to four sextets, '=' padded.
B64Quad(b1, b2, b3) ==
    << b1 \div 4,
       (b1 % 4) * 16 + b2 \div 16,
       (b2 % 16) * 4 + b3 \div 64,
       b3 % 64 >>

RECURSIVE b64encode(_)
b64encode(b) ==
    IF Len(b) = 0 THEN <<>>
    ELSE IF Len(b) = 1 THEN << b[1] \div 4, (b[1] % 4) * 16, PAD, PAD >>
    ELSE IF Len(b) = 2
         THEN << b[1] \div 4, (b[1] % 4) * 16 + b[2] \div 16, (b[2] % 16) * 4, PAD >>
    ELSE B64Quad(b[1], b[2], b[3]) \o b64encode(SubSeq(b, 4, Len(b)))

\* binascii.a2b_base64 in its default, non-strict mode, one character at a
\* time.  st = [q, left, pads, out, done]: position in the quad, the bits
\* left over, the pads seen, the bytes so far, and whether a complete pad
\* sequence ended the parse.
B64Step(st, c) ==
    IF st.done THEN st
    ELSE IF c = PAD
         THEN IF st.q >= 2
              THEN IF st.q + st.pads + 1 >= 4
                   THEN [st EXCEPT !.pads = @ + 1, !.done = TRUE]
                   ELSE [st EXCEPT !.pads = @ + 1]
              ELSE st
    ELSE IF c > 63 THEN st
    ELSE CASE st.q = 0 -> [st EXCEPT !.q = 1, !.left = c, !.pads = 0]
           [] st.q = 1 -> [st EXCEPT !.q = 2, !.pads = 0, !.left = c % 16,
                                     !.out = Append(@, st.left * 4 + c \div 16)]
           [] st.q = 2 -> [st EXCEPT !.q = 3, !.pads = 0, !.left = c % 4,
                                     !.out = Append(@, st.left * 16 + c \div 4)]
           [] st.q = 3 -> [st EXCEPT !.q = 0, !.pads = 0, !.left = 0,
                                     !.out = Append(@, st.left * 64 + c)]

RECURSIVE B64Run(_, _)
B64Run(st, s) == IF s = <<>> THEN st ELSE B64Run(B64Step(st, Head(s)), Tail(s))

\* base64.b64decode(s): [ok, bytes]; not ok is binascii.Error.
b64decode(s) ==
    LET st == B64Run([q |-> 0, left |-> 0, pads |-> 0, out |-> <<>>, done |-> FALSE], s)
    IN  IF st.done \/ st.q = 0
        THEN [ok |-> TRUE, bytes |-> st.out]
        ELSE [ok |-> FALSE, bytes |-> <<>>]

\* ------------------------------------------------------------------ _wrap
\* textwrap.wrap of a text without blanks or hyphens: pieces of w characters.
RECURSIVE _wrap(_, _)
_wrap(s, w) ==
    IF Len(s) = 0 THEN <<>>
    ELSE IF Len(s) <= w THEN << s >>
    ELSE << SubSeq(s, 1, w) >> \o _wrap(SubSeq(s, w + 1, Len(s)), w)

WrapLines(s, w) == [i \in 1..Len(_wrap(s, w)) |-> Line(<<>>, _wrap(s, w)[i])]

\* b64[i:i + chunk_size] for i in range(0, len(b64), chunk_size)
RECURSIVE Chunks(_, _)
Chunks(s, size) ==
    IF Len(s) = 0 THEN <<>>
    ELSE IF Len(s) <= size THEN << s >>
    ELSE << SubSeq(s, 1, size) >> \o Chunks(SubSeq(s, size + 1, Len(s)), size)


\* =========================================================================
\* 1) LOSSLESS
\* =========================================================================

\* Decimal digits of n as base64 characters ('0' = 52): what a number
\* contributes when a line holding it is read as base64 text.
RECURSIVE Digits(_)
Digits(n) == IF n < 10 THEN << 52 + n >> ELSE Digits(n \div 10) \o << 52 + (n % 10) >>

\* img.info.get("software"): absent, or a text of one or more lines (a PNG
\* tEXt value may hold line feeds).  A text is the sequence of its lines.
SoftwareNone == <<>>
SoftwarePlain == << Line(<<"GIMP">>, <<>>) >>
SoftwareTwoLines == << Line(<<"x">>, <<>>), Line(<<"sha256:">>, <<0>>) >>
SoftwareChunkBlock ==
    << Line(<<"x">>, <<>>), Line(<<"CHUNK">>, <<1, 1>>), Line(<<>>, <<16, 16, PAD, PAD>>),
       Line(<<"END CHUNK">>, <<>>) >>
SoftwareTexts == {SoftwareNone, SoftwarePlain, SoftwareTwoLines, SoftwareChunkBlock}

\* A value of one or more lines after "key:": the first line continues the
\* key's line, the others follow it.
KeyText(key, text) ==
    << Line(<<key>> \o text[1].w, text[1].d) >> \o SubSeq(text, 2, Len(text))

Header(b, source, filename, software, icc, exif, n_chunks, lw) ==
    << Line(<<"LOSSLESS MANIFEST v2">>, <<>>),
       Line(<<"source:">> \o source, <<>>),
       Line(<<"filename:">> \o filename, <<>>),
       Line(<<"mime_type:", "image/png">>, <<>>),
       Line(<<"filesize_bytes:">>, <<Len(b)>>),
       Line(<<"width:">>, <<1>>),
       Line(<<"height:">>, <<1>>),
       Line(<<"color_mode:", "RGB">>, <<>>),
       Line(<<"bit_depth:">>, <<8>>),
       Line(<<"dpi_x:", "null">>, <<>>),
       Line(<<"dpi_y:", "null">>, <<>>),
       Line(<<"has_alpha:", "false">>, <<>>),
       Line(<<"exif_orientation:", "null">>, <<>>) >>
    \o (IF software = <<>> THEN << Line(<<"software:", "null">>, <<>>) >>
                           ELSE KeyText("software:", software))
    \o << Line(<<"sha256:">>, _sha256(b)),
          Line(<<"md5:">>, _md5(b)),
          Line(<<"icc_profile_b64_present:", IF icc # <<>> THEN "true" ELSE "false">>, <<>>),
          Line(<<"exif_b64_present:", IF exif # <<>> THEN "true" ELSE "false">>, <<>>),
          Blank,
          Line(<<"chunk_count:">>, <<n_chunks>>),
          Line(<<"chunk_encoding:", "base64">>, <<>>),
          Line(<<"chunk_line_width:">>, <<lw>>),
          Blank >>

\* for i, c in enumerate(chunks, 1): CHUNK i/n, the wrapped chunk, END CHUNK, ""
RECURSIVE Body(_, _, _, _)
Body(chunks, i, n, lw) ==
    IF i > Len(chunks) THEN <<>>
    ELSE << Line(<<"CHUNK">>, <<i, n>>) >>
         \o WrapLines(chunks[i], lw)
         \o << Line(<<"END CHUNK">>, <<>>), Blank >>
         \o Body(chunks, i + 1, n, lw)

Extras(icc, exif, lw) ==
    (IF icc # <<>>
     THEN << Line(<<"ICC_PROFILE_START">>, <<>>) >> \o WrapLines(b64encode(icc), lw)
          \o << Line(<<"ICC_PROFILE_END">>, <<>>), Blank >>
     ELSE <<>>)
    \o
    (IF exif # <<>>
     THEN << Line(<<"EXIF_START">>, <<>>) >> \o WrapLines(b64encode(exif), lw)
          \o << Line(<<"EXIF_END">>, <<>>), Blank >>
     ELSE <<>>)

Instr ==
    << Line(<<"RECONSTRUCT_INSTRUCTIONS:">>, <<>>),
       Line(<<"1) Concatenate CHUNKs in order.">>, <<>>),
       Line(<<"2) Base64-decode to bytes.">>, <<>>),
       Line(<<"3) Verify SHA-256 matches \"sha256\" (md5 provided for convenience).">>, <<>>),
       Line(<<"4) Save bytes as \"filename\" with \"mime_type\".">>, <<>>),
       Line(<<"EOF">>, <<>>) >>

encode_lossless_to_manifest(b, source, filename, software, icc, exif, size, width) ==
    LET chunks == Chunks(b64encode(b), size)
    IN  Header(b, source, filename, software, icc, exif, Len(chunks), width)
        \o Body(chunks, 1, Len(chunks), width)
        \o Extras(icc, exif, width)
        \o Instr

\* grab(key): re.search(^key:\s*(.+)$, re.M), the first line that starts
\* with the key and has a value; None when there is none.
HasKey(l, key) == Len(l.w) >= 1 /\ l.w[1] = key /\ (Len(l.w) > 1 \/ l.d # <<>>)

grab(text, key) ==
    IF \E i \in 1..Len(text) : HasKey(text[i], key)
    THEN LET i == CHOOSE k \in 1..Len(text) :
                     HasKey(text[k], key) /\ \A j \in 1..(k - 1) : ~HasKey(text[j], key)
         IN  Line(Tail(text[i].w), text[i].d)
    ELSE None

IsMarker(l) == l.w = <<"CHUNK">> /\ Len(l.d) = 2
IsEnd(l) == Len(l.w) >= 1 /\ l.w[1] = "END CHUNK"

\* The characters of a line as the base64 decoder sees them.
LineChars(l) ==
    IF l.w = <<>> THEN l.d
    ELSE IF IsMarker(l)
         THEN <<2, 7, 20, 13, 10, SP>> \o Digits(l.d[1]) \o <<63>> \o Digits(l.d[2])
    ELSE IF IsEnd(l) THEN <<4, 13, 3, SP, 2, 7, 20, 13, 10>>
    ELSE <<JUNK>>

\* re.findall(CHUNK\s+\d+/\d+\s*\n(.*?)\nEND CHUNK, re.S): from each marker
\* line to the first END CHUNK line that leaves a body line between them;
\* the scan goes on after that line.  A block is the sequence of its lines.
RECURSIVE FindBlocks(_, _)
FindBlocks(text, i) ==
    IF i > Len(text) THEN <<>>
    ELSE IF IsMarker(text[i]) /\ \E q \in (i + 2)..Len(text) : IsEnd(text[q])
         THEN LET q == CHOOSE k \in (i + 2)..Len(text) :
                         IsEnd(text[k]) /\ \A j \in (i + 2)..(k - 1) : ~IsEnd(text[j])
              IN  << SubSeq(text, i + 1, q - 1) >> \o FindBlocks(text, q + 1)
    ELSE FindBlocks(text, i + 1)

\* x.replace("\n", "").strip() of a block: its lines joined, blanks at both
\* ends removed.
RECURSIVE LStrip(_)
LStrip(s) == IF s # <<>> /\ Head(s) = SP THEN LStrip(Tail(s)) ELSE s
RECURSIVE RStrip(_)
RStrip(s) == IF s # <<>> /\ s[Len(s)] = SP THEN RStrip(SubSeq(s, 1, Len(s) - 1)) ELSE s

BlockText(block) == RStrip(LStrip(Flatten([i \in 1..Len(block) |-> LineChars(block[i])])))

\* decode_lossless_manifest_to_image, but the digest is compared before the
\* blocks are counted.
decode_lossless_digest_first(text) ==
    LET filename == grab(text, "filename:")
        sha_expected == grab(text, "sha256:")
        cc == grab(text, "chunk_count:")
        blocks == FindBlocks(text, 1)
        b64 == Flatten([i \in 1..Len(blocks) |-> BlockText(blocks[i])])
        dec == b64decode(b64)
        failed(why) == [status |-> why, filename |-> <<>>, bytes |-> <<>>, sha256 |-> <<>>]
    IN  IF cc # None /\ ~(cc.w = <<>> /\ Len(cc.d) = 1) THEN failed("chunk_count not an integer")
        ELSE IF ~dec.ok THEN failed("base64 error")
        ELSE IF ~(sha_expected.w = <<>> /\ sha_expected.d = _sha256(dec.bytes))
             THEN failed("SHA-256 mismatch")
        ELSE IF Len(blocks) # (IF cc = None THEN 0 ELSE cc.d[1]) THEN failed("chunk count mismatch")
        ELSE IF filename = None THEN failed("no filename")
        ELSE [status |-> "ok", filename |-> filename.w, bytes |-> dec.bytes,
              sha256 |-> _sha256(dec.bytes)]

\* decode_lossless_manifest_to_image: the outcome
\*   [status, filename, bytes, sha256]
\* status "ok" with the bytes written under filename and the digest
\* reported, or the point where the call raised, nothing written.
Failed(why) == [status |-> why, filename |-> <<>>, bytes |-> <<>>, sha256 |-> <<>>]

decode_lossless_manifest_to_image(text) ==
    LET filename == grab(text, "filename:")
        sha_expected == grab(text, "sha256:")
        cc == grab(text, "chunk_count:")
        blocks == FindBlocks(text, 1)
        b64 == Flatten([i \in 1..Len(blocks) |-> BlockText(blocks[i])])
        dec == b64decode(b64)
    IN  IF cc # None /\ ~(cc.w = <<>> /\ Len(cc.d) = 1) THEN Failed("chunk_count not an integer")
        ELSE IF Len(blocks) # (IF cc = None THEN 0 ELSE cc.d[1]) THEN Failed("chunk count mismatch")
        ELSE IF ~dec.ok THEN Failed("base64 error")
        ELSE IF ~(sha_expected.w = <<>> /\ sha_expected.d = _sha256(dec.bytes))
             THEN Failed("SHA-256 mismatch")
        ELSE IF filename = None THEN Failed("no filename")
        ELSE [status |-> "ok", filename |-> filename.w, bytes |-> dec.bytes,
              sha256 |-> _sha256(dec.bytes)]


\* ------------------------------------------------------ lossless: actions
Blobs == NonEmptySeqs(ByteVals, MaxBytes)
IccProfiles == {<<>>, <<1>>}
ExifBlobs == {<<>>, <<2>>}
DefaultSource == <<"user_upload">>
UploadName == <<"upload.png">>

NoOutcome == Failed("not called")

\* The parts of the state a specification does not use stay as they start.
CommonStart == pc = "start" /\ manifest_text = <<>> /\ out = NoOutcome /\ written = <<>>
LosslessIdle ==
    /\ blob = <<>>
    /\ chunk_size = 0
    /\ line_width = 0
    /\ meta = [software |-> SoftwareNone, icc |-> <<>>, exif |-> <<>>]
    /\ tampered = FALSE
RleIdle == seq = <<>> /\ pairs = <<>> /\ expanded = <<>>
AlgoIdle == image = <<>> /\ params = <<>> /\ payload = <<>>
ServiceIdle == request = <<>> /\ response = <<>> /\ invoked = "none"
StagingIdle == tmp_file = <<>> /\ reqs = <<>>

LosslessInit ==
    /\ CommonStart /\ LosslessIdle /\ RleIdle /\ AlgoIdle /\ ServiceIdle /\ StagingIdle

\* encode_lossless_to_manifest on an image file of any content, with any
\* chunk_size >= 1 and line_width >= 1.
EncodeLossless ==
    /\ pc = "start"
    /\ \E b \in Blobs, cs \in 1..MaxChunk, lw \in 1..MaxWidth,
          sw \in SoftwareTexts, icc \in IccProfiles, exif \in ExifBlobs :
        /\ blob' = b
        /\ chunk_size' = cs
        /\ line_width' = lw
        /\ meta' = [software |-> sw, icc |-> icc, exif |-> exif]
        /\ manifest_text' =
               encode_lossless_to_manifest(b, DefaultSource, UploadName, sw, icc, exif, cs, lw)
    /\ pc' = "encoded"
    /\ UNCHANGED <<tampered, out, written, rleVars, algoVars, serviceVars, stagingVars>>

\* The lines of the manifest that lie inside a CHUNK body.
BodyLines(text) ==
    {i \in 1..Len(text) :
        /\ text[i].w = <<>> /\ text[i].d # <<>>
        /\ \E m \in 1..(i - 1) :
              /\ IsMarker(text[m])
              /\ \A j \in (m + 1)..i : text[j].w = <<>> /\ text[j].d # <<>>}

\* One character inside a chunk body is replaced by a different one.
Tamper ==
    /\ pc = "encoded"
    /\ ~tampered
    /\ \E i \in BodyLines(manifest_text) :
       \E k \in 1..Len(manifest_text[i].d), c \in TamperAlphabet :
          /\ c # manifest_text[i].d[k]
          /\ manifest_text' = [manifest_text EXCEPT ![i].d[k] = c]
    /\ tampered' = TRUE
    /\ UNCHANGED <<pc, blob, chunk_size, line_width, meta, out, written>>
    /\ UNCHANGED <<rleVars, algoVars, serviceVars, stagingVars>>

\* decode_lossless_manifest_to_image(manifest_text, output_dir)
DecodeLossless ==
    /\ pc = "encoded"
    /\ out' = decode_lossless_manifest_to_image(manifest_text)
    /\ written' = IF out'.status = "ok"
                  THEN Append(written, [name |-> out'.filename, bytes |-> out'.bytes])
                  ELSE written
    /\ pc' = "decoded"
    /\ UNCHANGED <<blob, chunk_size, line_width, meta, manifest_text, tampered>>
    /\ UNCHANGED <<rleVars, algoVars, serviceVars, stagingVars>>

LosslessNext == EncodeLossless \/ Tamper \/ DecodeLossless

SpecLossless == LosslessInit /\ [][LosslessNext]_vars

\* ------------------------------------------------------- lossless: claims
Encoded == pc \in {"encoded", "decoded"}
B64Len == Len(b64encode(blob))
Markers == SelectSeq(manifest_text, IsMarker)
EndMarkers == SelectSeq(manifest_text, IsEnd)
ChunkCountLines == SelectSeq(manifest_text, LAMBDA l : Len(l.w) >= 1 /\ l.w[1] = "chunk_count:")

\* C1: decoding the manifest encode produced succeeds, writes exactly the
\* bytes that were encoded and reports the digest the encoder declared for
\* them, whatever the file, chunk_size and line_width.
C1_RoundTrip ==
    (pc = "decoded" /\ ~tampered) =>
        /\ out.status = "ok"
        /\ out.bytes = blob
        /\ out.sha256 = _sha256(blob)
        /\ written = << [name |-> UploadName, bytes |-> blob] >>

\* The round trip of C1 for the files whose software tag is absent or a
\* single line.
RoundTripOneLineSoftware ==
    (pc = "decoded" /\ ~tampered /\ Len(meta.software) <= 1) =>
        /\ out.status = "ok"
        /\ out.bytes = blob
        /\ out.sha256 = _sha256(blob)
        /\ written = << [name |-> UploadName, bytes |-> blob] >>

\* C2: after one character of a chunk body was replaced by a different one,
\* decode never succeeds.
C2_TamperDetected == (pc = "decoded" /\ tampered) => out.status # "ok"

\* What does hold of a tampered manifest: decode fails, or the bytes it
\* writes are still the encoded ones.
TamperNeverAltersBytes ==
    (pc = "decoded" /\ tampered /\ out.status = "ok") => out.bytes = blob

\* C3: the CHUNK i/n blocks of the manifest, the n of every marker and the
\* chunk_count of the header are all ceil(len(base64(B)) / chunk_size), and
\* the blocks are numbered 1..n in document order.
C3_ChunkCount ==
    Encoded =>
        LET n == CeilDiv(B64Len, chunk_size)
        IN  /\ Len(Markers) = n
            /\ \A i \in 1..Len(Markers) : Markers[i].d = <<i, n>>
            /\ Len(EndMarkers) = n
            /\ Len(FindBlocks(manifest_text, 1)) = n
            /\ ChunkCountLines = << Line(<<"chunk_count:">>, <<n>>) >>

\* The counts of C3 for the files whose software tag is absent or a single
\* line.
ChunkCountOneLineSoftware ==
    (Encoded /\ Len(meta.software) <= 1) =>
        LET n == CeilDiv(B64Len, chunk_size)
        IN  /\ Len(Markers) = n
            /\ \A i \in 1..Len(Markers) : Markers[i].d = <<i, n>>
            /\ Len(EndMarkers) = n
            /\ Len(FindBlocks(manifest_text, 1)) = n
            /\ ChunkCountLines = << Line(<<"chunk_count:">>, <<n>>) >>

\* A base64 text that chunk_size does not divide, in several chunks.
SeveralChunks ==
    /\ pc = "encoded"
    /\ Len(meta.software) <= 1
    /\ B64Len % chunk_size # 0
    /\ Len(Markers) >= 3
    /\ Len(Markers) = CeilDiv(B64Len, chunk_size)

\* The manifest of a file whose software tag holds the lines of a CHUNK
\* block has one block more than its chunk_count, and decode refuses it.
SoftwareTagAddsBlock ==
    /\ pc = "decoded" /\ ~tampered
    /\ meta.software = SoftwareChunkBlock
    /\ Len(FindBlocks(manifest_text, 1)) = CeilDiv(B64Len, chunk_size) + 1
    /\ ChunkCountLines = << Line(<<"chunk_count:">>, <<CeilDiv(B64Len, chunk_size)>>) >>
    /\ out.status = "chunk count mismatch"

\* =========================================================================
\* 2) RUN-LENGTH CODEC
\* =========================================================================
MaxSeq == 4
RleVals == {0, 1, 2}
RleCap == 2147483647

\* _rle_encode, but a run is closed one short of the cap.
RECURSIVE RleLoopCapOneShort(_, _, _, _)
RleLoopCapOneShort(rest, acc, prev, cnt) ==
    IF rest = <<>> THEN Append(acc, <<cnt, prev>>)
    ELSE IF Head(rest) = prev /\ cnt < RleCap - 1
         THEN RleLoopCapOneShort(Tail(rest), acc, prev, cnt + 1)
         ELSE RleLoopCapOneShort(Tail(rest), Append(acc, <<cnt, prev>>), Head(rest), 1)

\* The loop of _rle_encode over seq[1:], with out, prev and cnt as they stand.
RECURSIVE RleLoop(_, _, _, _)
RleLoop(rest, acc, prev, cnt) ==
    IF rest = <<>> THEN Append(acc, <<cnt, prev>>)
    ELSE IF Head(rest) = prev /\ cnt < RleCap
         THEN RleLoop(Tail(rest), acc, prev, cnt + 1)
         ELSE RleLoop(Tail(rest), Append(acc, <<cnt, prev>>), Head(rest), 1)

\* _rle_encode, but a run is closed without being written out.
RECURSIVE RleLoopDropsRun(_, _, _, _)
RleLoopDropsRun(rest, acc, prev, cnt) ==
    IF rest = <<>> THEN Append(acc, <<cnt, prev>>)
    ELSE IF Head(rest) = prev /\ cnt < RleCap
         THEN RleLoopDropsRun(Tail(rest), acc, prev, cnt + 1)
         ELSE RleLoopDropsRun(Tail(rest), acc, Head(rest), 1)

_rle_encode_drops_run(s) == IF s = <<>> THEN <<>> ELSE RleLoopDropsRun(Tail(s), <<>>, Head(s), 1)

_rle_encode(s) == IF s = <<>> THEN <<>> ELSE RleLoop(Tail(s), <<>>, Head(s), 1)

\* [val] * cnt: empty when cnt <= 0.
Repeat(val, cnt) == [i \in 1..cnt |-> val]

RECURSIVE _rle_decode(_)
_rle_decode(ps) ==
    IF ps = <<>> THEN <<>> ELSE Repeat(Head(ps)[2], Head(ps)[1]) \o _rle_decode(Tail(ps))

RleInit ==
    /\ CommonStart /\ LosslessIdle /\ AlgoIdle /\ ServiceIdle /\ StagingIdle
    /\ seq \in SeqsUpTo(RleVals, MaxSeq)
    /\ pairs = <<>>
    /\ expanded = <<>>

RleEncode ==
    /\ pc = "start"
    /\ pairs' = _rle_encode(seq)
    /\ pc' = "encoded"
    /\ UNCHANGED <<seq, expanded, manifest_text, out, written>>
    /\ UNCHANGED <<losslessVars, algoVars, serviceVars, stagingVars>>

RleDecode ==
    /\ pc = "encoded"
    /\ expanded' = _rle_decode(pairs)
    /\ pc' = "decoded"
    /\ UNCHANGED <<seq, pairs, manifest_text, out, written>>
    /\ UNCHANGED <<losslessVars, algoVars, serviceVars, stagingVars>>

RleNext == RleEncode \/ RleDecode

SpecRle == RleInit /\ [][RleNext]_vars

\* C4: _rle_decode(_rle_encode(S)) is S, element for element and in order;
\* the empty sequence encodes to the empty run list.
C4_RleRoundTrip ==
    /\ (pc = "decoded" => expanded = seq)
    /\ (pc # "start" /\ seq = <<>> => pairs = <<>>)

\* C4's case: a sequence of several runs, one of them longer than one, came
\* back from the round trip.
C4_Witness == pc = "decoded" /\ Len(seq) = MaxSeq /\ Len(pairs) = 3 /\ expanded = seq

\* =========================================================================
\* 3) LOSSY-ALGO
\* =========================================================================
MaxPixels == 3
MaxPalette == 2
MaxRuns == 2

ColorSet == {<<0, 0, 0>>, <<18, 52, 86>>}
AlphaVals == {0, 255}
Black == <<0, 0, 0>>
MaxSideChoices == {1, 2}
DefaultMaxSide == 128

\* ------------------------------------------------- text of a JSON manifest
\* The text as the regular expressions see it: the words of every line, its
\* data as one token, and a line break between two lines.
Word(s) == [s |-> s, d |-> <<>>]
NL == Word("\n")

LineTokens(l) ==
    [i \in 1..Len(l.w) |-> Word(l.w[i])]
    \o (IF l.d # <<>> THEN << [s |-> "#", d |-> l.d] >> ELSE <<>>)

RECURSIVE Tokens(_)
Tokens(text) ==
    IF text = <<>> THEN <<>>
    ELSE IF Len(text) = 1 THEN LineTokens(text[1])
    ELSE LineTokens(Head(text)) \o <<NL>> \o Tokens(Tail(text))

\* The lines of a token sequence: the inverse of Tokens.
RECURSIVE SplitLines(_, _)
SplitLines(toks, cur) ==
    IF toks = <<>> THEN << cur >>
    ELSE IF Head(toks) = NL THEN << cur >> \o SplitLines(Tail(toks), <<>>)
    ELSE SplitLines(Tail(toks), Append(cur, Head(toks)))

\* The first position at or after p that holds no line break (\s*), the
\* length plus one when there is none.
RECURSIVE SkipSpace(_, _)
SkipSpace(toks, p) ==
    IF p > Len(toks) THEN p
    ELSE IF toks[p] = NL THEN SkipSpace(toks, p + 1) ELSE p

IsWordAt(toks, p, s) == p >= 1 /\ p <= Len(toks) /\ toks[p] = Word(s)

\* re.search(JSON_START\s*(\{.*?\})\s*JSON_END, re.S): the leftmost
\* JSON_START directly followed by "{" from which some "}" directly followed
\* by JSON_END can be reached, and the nearest such "}".  The result is the
\* captured token sequence, <<>> when there is no match.
JsonMatchFrom(toks, p) ==
    LET q == SkipSpace(toks, p + 1)
    IN  IF IsWordAt(toks, p, "JSON_START") /\ IsWordAt(toks, q, "{")
        THEN {r \in (q + 1)..Len(toks) :
                 IsWordAt(toks, r, "}") /\ IsWordAt(toks, SkipSpace(toks, r + 1), "JSON_END")}
        ELSE {}

JsonSearch(toks) ==
    LET starts == {p \in 1..Len(toks) : JsonMatchFrom(toks, p) # {}}
    IN  IF starts = {} THEN <<>>
        ELSE LET p == CHOOSE x \in starts : \A y \in starts : x <= y
                 q == SkipSpace(toks, p + 1)
                 r == CHOOSE x \in JsonMatchFrom(toks, p) :
                         \A y \in JsonMatchFrom(toks, p) : x <= y
             IN  SubSeq(toks, q, r)

\* json.dumps(payload, indent=2) writes one member per line, "key": value,
\* between a line "{" and a line "}".
IsMemberLine(ts) ==
    /\ Len(ts) >= 1
    /\ ts[1].s \notin {"{", "}", "#", "\n"}
    /\ \A i \in 1..Len(ts) : ts[i].s = "#" => i = Len(ts)

MemberValue(ts) ==
    LET n == Len(ts)
        hasData == ts[n].s = "#"
        words == SubSeq(ts, 2, IF hasData THEN n - 1 ELSE n)
    IN  Line([i \in 1..Len(words) |-> words[i].s], IF hasData THEN ts[n].d ELSE <<>>)

\* json.loads of the captured text: [ok, obj], obj mapping each key to the
\* line of its value; not ok is JSONDecodeError.
json_loads(toks) ==
    LET ls == SplitLines(toks, <<>>)
        n == Len(ls)
    IN  IF toks = << Word("{"), Word("}") >>
        THEN [ok |-> TRUE, obj |-> [k \in {} |-> None]]
        ELSE IF /\ n >= 2
                /\ ls[1] = << Word("{") >>
                /\ ls[n] = << Word("}") >>
                /\ \A i \in 2..(n - 1) : IsMemberLine(ls[i])
        THEN [ok |-> TRUE,
              obj |-> [k \in {ls[i][1].s : i \in 2..(n - 1)} |->
                         MemberValue(ls[CHOOSE i \in 2..(n - 1) :
                                        /\ ls[i][1].s = k
                                        /\ \A j \in (i + 1)..(n - 1) : ls[j][1].s # k])]]
        ELSE [ok |-> FALSE, obj |-> [k \in {} |-> None]]

\* ------------------------------------------------------- imaging library
\* An image is [width, height, mode, pixels, alpha]: the RGB pixels in
\* row-major order and, in mode RGBA, the alpha samples in the same order.
Dims == {wh \in (1..MaxPixels) \X (1..MaxPixels) : wh[1] * wh[2] <= MaxPixels}

Images ==
    UNION {
        {[width |-> wh[1], height |-> wh[2], mode |-> "RGB", pixels |-> px, alpha |-> <<>>] :
            px \in [1..(wh[1] * wh[2]) -> ColorSet]}
        \cup
        {[width |-> wh[1], height |-> wh[2], mode |-> "RGBA", pixels |-> px, alpha |-> al] :
            px \in [1..(wh[1] * wh[2]) -> ColorSet], al \in [1..(wh[1] * wh[2]) -> AlphaVals]}
        : wh \in Dims}

\* The distinct elements of a sequence in the order of their first occurrence.
RECURSIVE DistinctInOrder(_, _)
DistinctInOrder(s, acc) ==
    IF s = <<>> THEN acc
    ELSE IF \E i \in 1..Len(acc) : acc[i] = Head(s)
         THEN DistinctInOrder(Tail(s), acc)
         ELSE DistinctInOrder(Tail(s), Append(acc, Head(s)))

IndexOf(x, s) == CHOOSE i \in 1..Len(s) : s[i] = x

\* Image.quantize(colors, MEDIANCUT): a palette of at most `colors` entries
\* and an index below the palette's size for every pixel.  The colours are
\* taken in the order of their first occurrence; those beyond `colors` fall
\* on the last entry.
Quantize(pixels, colors) ==
    LET all == DistinctInOrder(pixels, <<>>)
        k == Min(Len(all), colors)
    IN  [palette |-> SubSeq(all, 1, k),
         idxs |-> [i \in 1..Len(pixels) |-> Min(IndexOf(pixels[i], all), k) - 1]]

\* imgP.getpalette() as RGB triples: the realized entries, which the library
\* may pad with black up to 256 entries.
GetPaletteLens(k) == {k, 256}
GetPalette(palette, len) == [i \in 1..len |-> IF i <= Len(palette) THEN palette[i] ELSE Black]

\* _palette_from_P, but one entry short: trip[:palette_size - 1].
PaletteOneShort(trip, palette_size) == SubSeq(trip, 1, Min(palette_size - 1, Len(trip)))

\* trip[:palette_size]
_palette_from_P(trip, palette_size) == SubSeq(trip, 1, Min(palette_size, Len(trip)))

\* round(), to the nearest integer and to the even one of two as near.
RoundHalfEven(num, den) ==
    LET q == num \div den
        r == num % den
    IN  IF 2 * r < den THEN q
        ELSE IF 2 * r > den THEN q + 1
        ELSE IF q % 2 = 0 THEN q ELSE q + 1

\* nw, nh = max(1, int(round(ow * scale))), max(1, int(round(oh * scale)))
\* with scale = max_side / max(ow, oh) when that side exceeds max_side.
ResultSize(ow, oh, lock_dims, max_side) ==
    IF lock_dims \/ Max(ow, oh) <= max_side THEN <<ow, oh>>
    ELSE << Max(1, RoundHalfEven(ow * max_side, Max(ow, oh))),
            Max(1, RoundHalfEven(oh * max_side, Max(ow, oh))) >>

\* "{:02X}" of a channel, and int(.., 16) of two hex digits.
Hex2(v) == << v \div 16, v % 16 >>
_rgb_to_hex(c) == Hex2(c[1]) \o Hex2(c[2]) \o Hex2(c[3])
HexToRgb(h) == << h[1] * 16 + h[2], h[3] * 16 + h[4], h[5] * 16 + h[6] >>

RECURSIVE BitLength(_)
BitLength(n) == IF n <= 0 THEN 0 ELSE 1 + BitLength(n \div 2)

\* A flat list of numbers in groups of n, as JSON nests them.
Groups(flat, n) == [i \in 1..(Len(flat) \div n) |-> SubSeq(flat, (i - 1) * n + 1, i * n)]

\* ----------------------------------------------- encode_lossy_algo_to_text
\* The payload, given what the library returned: the resampled pixels and
\* alpha samples, and the palette's length.
AlgoPayload(img, source, lock_dims, max_side, palette_size, size, rpixels, ralpha, pal_len) ==
    LET q == Quantize(rpixels, palette_size)
        pal == _palette_from_P(GetPalette(q.palette, pal_len), palette_size)
        act_palette == Len(pal)
    IN  [schema |-> "IMG-ALGO-LOSSY v2",
         source |-> source,
         original |-> [width |-> img.width, height |-> img.height, mode |-> img.mode,
                       has_alpha |-> img.mode = "RGBA"],
         params |-> [lock_dims |-> lock_dims, max_side |-> max_side,
                     palette_size |-> palette_size, resample |-> "bicubic", dither |-> FALSE],
         result_size |-> [width |-> size[1], height |-> size[2]],
         palette_rgb_hex |-> [i \in 1..Len(pal) |-> _rgb_to_hex(pal[i])],
         palette_size_actual |-> act_palette,
         index_bit_depth |-> Max(1, BitLength(act_palette - 1)),
         pixels_rle |-> _rle_encode(q.idxs),
         alpha_rle |-> IF img.mode = "RGBA"
                       THEN [null |-> FALSE, runs |-> _rle_encode(ralpha)]
                       ELSE [null |-> TRUE, runs |-> <<>>]]

Flag(b) == IF b THEN 1 ELSE 0

\* json.dumps(payload, ensure_ascii=False, indent=2)
json_dumps(p) ==
    << Line(<<"{">>, <<>>),
       Line(<<"\"schema\":", p.schema>>, <<>>),
       Line(<<"\"source\":">> \o p.source, <<>>),
       Line(<<"\"original\":", p.original.mode>>,
            <<p.original.width, p.original.height, Flag(p.original.has_alpha)>>),
       Line(<<"\"params\":", p.params.resample>>,
            <<Flag(p.params.lock_dims), p.params.max_side, p.params.palette_size,
              Flag(p.params.dither)>>),
       Line(<<"\"result_size\":">>, <<p.result_size.width, p.result_size.height>>),
       Line(<<"\"palette_rgb_hex\":">>, Flatten(p.palette_rgb_hex)),
       Line(<<"\"palette_size_actual\":">>, <<p.palette_size_actual>>),
       Line(<<"\"index_bit_depth\":">>, <<p.index_bit_depth>>),
       Line(<<"\"pixels_rle\":">>, Flatten(p.pixels_rle)),
       IF p.alpha_rle.null THEN Line(<<"\"alpha_rle\":", "null">>, <<>>)
                           ELSE Line(<<"\"alpha_rle\":">>, Flatten(p.alpha_rle.runs)),
       Line(<<"}">>, <<>>) >>

AlgoText(p, basename) ==
    << Line(<<"LOSSY-ALGO MANIFEST v2">>, <<>>),
       Line(<<"note: deterministic; rebuild matches this lossy image exactly (size + alpha).">>, <<>>),
       Line(<<"filename:">> \o basename, <<>>),
       Blank,
       Line(<<"JSON_START">>, <<>>) >>
    \o json_dumps(p)
    \o << Line(<<"JSON_END">>, <<>>) >>

\* ----------------------------------------- decode_lossy_algo_text_to_image
AlgoFailed(why) ==
    [status |-> why, size |-> <<0, 0>>, mode |-> "", pixels |-> <<>>, alpha |-> <<>>]

\* The accepted set with a later version let in.
AlgoSchemasWithV3 == {"IMG-ALGO-LOSSY v2", "IMG-ALGO-LOSSY v1", "IMG-ALGO-LOSSY v3"}

AcceptedAlgoSchemas == {"IMG-ALGO-LOSSY v2", "IMG-ALGO-LOSSY v1"}

Has(obj, key) == key \in DOMAIN obj

\* The decoder from the schema check on, given the payload json.loads returned.
AlgoFromPayload(obj) ==
    LET W == obj["\"result_size\":"].d[1]
        H == obj["\"result_size\":"].d[2]
        pal_hex == Groups(obj["\"palette_rgb_hex\":"].d, 6)
        idxs == _rle_decode(Groups(obj["\"pixels_rle\":"].d, 2))
        alpha_rle == IF Has(obj, "\"alpha_rle\":")
                     THEN Groups(obj["\"alpha_rle\":"].d, 2) ELSE <<>>
        a == _rle_decode(alpha_rle)
        rgb == [i \in 1..Len(idxs) |->
                   IF idxs[i] + 1 <= Len(pal_hex) THEN HexToRgb(pal_hex[idxs[i] + 1]) ELSE Black]
    IN  IF ~(Has(obj, "\"schema\":") /\ obj["\"schema\":"].d = <<>>
             /\ Len(obj["\"schema\":"].w) = 1
             /\ obj["\"schema\":"].w[1] \in AcceptedAlgoSchemas)
        THEN AlgoFailed("Unsupported schema.")
        ELSE IF ~Has(obj, "\"result_size\":") \/ ~Has(obj, "\"palette_rgb_hex\":")
                \/ ~Has(obj, "\"pixels_rle\":")
             THEN AlgoFailed("KeyError")
        ELSE IF Len(idxs) # W * H THEN AlgoFailed("Pixel count mismatch.")
        ELSE IF alpha_rle # <<>>
             THEN IF Len(a) # W * H THEN AlgoFailed("Alpha length mismatch.")
                  ELSE [status |-> "ok", size |-> <<W, H>>, mode |-> "RGBA",
                        pixels |-> rgb, alpha |-> a]
        ELSE [status |-> "ok", size |-> <<W, H>>, mode |-> "RGB", pixels |-> rgb, alpha |-> <<>>]

\* payload = json.loads(m.group(1)), then the rest.
AlgoFromLoaded(loaded) ==
    IF ~loaded.ok THEN AlgoFailed("JSONDecodeError") ELSE AlgoFromPayload(loaded.obj)

\* The decoder given the match m of the JSON pattern in the text.
AlgoFromMatch(m) ==
    IF m = <<>> THEN AlgoFailed("JSON payload not found.") ELSE AlgoFromLoaded(json_loads(m))

decode_lossy_algo_text_to_image(text) == AlgoFromMatch(JsonSearch(Tokens(text)))

\* ----------------------------------------------------- lossy-algo: actions
\* The source tag and the file's base name are the caller's: any text.
AlgoCallers ==
    { [source |-> <<"user_upload">>, basename |-> <<"upload.png">>],
      [source |-> <<"}", "JSON_END">>, basename |-> <<"upload.png">>],
      [source |-> <<"user_upload">>, basename |-> <<"JSON_START", "{", "}", "JSON_END", ".png">>] }

AlgoInit ==
    /\ CommonStart /\ LosslessIdle /\ RleIdle /\ AlgoIdle /\ ServiceIdle /\ StagingIdle

\* encode_lossy_algo_to_text on any image.  With lock_dims the image is
\* quantized as it is; without, the library resamples pixels and alpha to
\* the result size, and what comes back is the image itself when the size
\* is unchanged and any image of the result size otherwise.
EncodeAlgo ==
    /\ pc = "start"
    /\ \E img \in Images, lock_dims \in BOOLEAN, palette_size \in 1..MaxPalette,
          c \in AlgoCallers :
       \E max_side \in (IF lock_dims THEN {DefaultMaxSide} ELSE MaxSideChoices) :
       LET size == ResultSize(img.width, img.height, lock_dims, max_side)
           same == size = <<img.width, img.height>>
           n == size[1] * size[2]
       IN  \E rpixels \in (IF same THEN {img.pixels} ELSE [1..n -> ColorSet]),
              ralpha \in (IF img.mode # "RGBA" THEN {<<>>}
                          ELSE IF same THEN {img.alpha} ELSE [1..n -> AlphaVals]) :
           \E pal_len \in GetPaletteLens(Len(Quantize(rpixels, palette_size).palette)) :
              /\ image' = img
              /\ params' = [origin |-> "encoder", basename |-> c.basename,
                            resampled |-> rpixels, pal_len |-> pal_len]
              /\ payload' = AlgoPayload(img, c.source, lock_dims, max_side, palette_size,
                                        size, rpixels, ralpha, pal_len)
              /\ manifest_text' = AlgoText(payload', c.basename)
    /\ pc' = "encoded"
    /\ UNCHANGED <<out, written, losslessVars, rleVars, serviceVars, stagingVars>>

\* A payload that no encoder wrote, under an accepted schema tag: any
\* declared size, any run lists, the alpha list absent (null), empty or not.
CraftDims == {<<1, 1>>, <<1, 2>>, <<2, 2>>}
CraftCounts == {0, 1, 2}
CraftPalette == << _rgb_to_hex(<<18, 52, 86>>), _rgb_to_hex(<<255, 255, 255>>) >>
PixelRuns == SeqsUpTo(CraftCounts \X {0, 1}, MaxRuns)
AlphaRuns == SeqsUpTo(CraftCounts \X {255}, MaxRuns)

CraftAlgo ==
    /\ pc = "start"
    /\ \E wh \in CraftDims, schema \in AcceptedAlgoSchemas, pr \in PixelRuns :
       \E alpha \in {[null |-> TRUE, runs |-> <<>>]} \cup {[null |-> FALSE, runs |-> r] : r \in AlphaRuns} :
          /\ payload' = [schema |-> schema,
                         source |-> <<"user_upload">>,
                         original |-> [width |-> wh[1], height |-> wh[2], mode |-> "RGB",
                                       has_alpha |-> ~alpha.null],
                         params |-> [lock_dims |-> TRUE, max_side |-> DefaultMaxSide,
                                     palette_size |-> 2, resample |-> "bicubic",
                                     dither |-> FALSE],
                         result_size |-> [width |-> wh[1], height |-> wh[2]],
                         palette_rgb_hex |-> CraftPalette,
                         palette_size_actual |-> 2,
                         index_bit_depth |-> 1,
                         pixels_rle |-> pr,
                         alpha_rle |-> alpha]
          /\ manifest_text' = AlgoText(payload', <<"upload.png">>)
    /\ params' = [origin |-> "crafted", basename |-> <<"upload.png">>,
                  resampled |-> <<>>, pal_len |-> 0]
    /\ pc' = "encoded"
    /\ UNCHANGED <<image, out, written, losslessVars, rleVars, serviceVars, stagingVars>>

\* decode_lossy_algo_text_to_image(manifest_text, output_dir)
DecodeAlgo ==
    /\ pc = "encoded"
    /\ out' = decode_lossy_algo_text_to_image(manifest_text)
    /\ written' = IF out'.status = "ok"
                  THEN Append(written, [name |-> <<"rebuilt_lossy_algo_v3.png">>, image |-> out'])
                  ELSE written
    /\ pc' = "decoded"
    /\ UNCHANGED <<manifest_text, losslessVars, rleVars, algoVars, serviceVars, stagingVars>>

AlgoNext == EncodeAlgo \/ CraftAlgo \/ DecodeAlgo

SpecAlgo == AlgoInit /\ [][AlgoNext]_vars

\* ------------------------------------------------------ lossy-algo: claims
FromEncoder == pc \in {"encoded", "decoded"} /\ params.origin = "encoder"
Crafted == pc \in {"encoded", "decoded"} /\ params.origin = "crafted"
PlainCaller == params.basename = <<"upload.png">> /\ payload.source = <<"user_upload">>

\* The sum of the counts of a run list.
RunTotal(runs) == SumSeq([i \in 1..Len(runs) |-> runs[i][1]])

DeclaredPixels == payload.result_size.width * payload.result_size.height

\* C5: in every manifest the encoder produces, the counts of the pixel runs
\* add up to result width times result height, every run's index is below
\* palette_size_actual (and has its colour in the palette list), and the
\* counts of the alpha runs, when there are any, add up to the same product.
C5_PayloadInvariants ==
    FromEncoder =>
        /\ RunTotal(payload.pixels_rle) = DeclaredPixels
        /\ \A i \in 1..Len(payload.pixels_rle) :
              /\ payload.pixels_rle[i][2] >= 0
              /\ payload.pixels_rle[i][2] < payload.palette_size_actual
              /\ payload.pixels_rle[i][2] < Len(payload.palette_rgb_hex)
        /\ ~payload.alpha_rle.null => RunTotal(payload.alpha_rle.runs) = DeclaredPixels

\* C5's case: an RGBA image was resampled to a smaller size and its manifest
\* holds two pixel runs over a palette of two colours and two alpha runs.
C5_Witness ==
    /\ FromEncoder
    /\ image.mode = "RGBA"
    /\ DeclaredPixels < image.width * image.height
    /\ Len(payload.pixels_rle) = 2
    /\ payload.pixels_rle[2][2] = 1
    /\ payload.palette_size_actual = 2
    /\ Len(payload.alpha_rle.runs) = 2

\* Every pixel of the encoded image has one colour.
SingleColour == \A i \in 1..Len(image.pixels) : image.pixels[i] = image.pixels[1]

\* The decoder's output is the image the payload describes.
RebuiltAsDescribed ==
    LET idxs == _rle_decode(payload.pixels_rle)
    IN  /\ out.status = "ok"
        /\ out.size = <<payload.result_size.width, payload.result_size.height>>
        /\ Len(out.pixels) = DeclaredPixels
        /\ \A i \in 1..Len(out.pixels) :
              out.pixels[i] = HexToRgb(payload.palette_rgb_hex[idxs[i] + 1])
        /\ IF payload.alpha_rle.null
           THEN out.mode = "RGB" /\ out.alpha = <<>>
           ELSE out.mode = "RGBA" /\ out.alpha = _rle_decode(payload.alpha_rle.runs)
        /\ written = << [name |-> <<"rebuilt_lossy_algo_v3.png">>, image |-> out] >>

\* C6: decoding a manifest the encoder produced rebuilds exactly the image
\* the manifest describes: the declared size, every pixel the palette
\* colour of its index, the alpha channel of the alpha runs; and an image of
\* one colour, encoded at its own size, has one pixel run over the whole image.
C6_ExactRebuild ==
    /\ (FromEncoder /\ pc = "decoded") => RebuiltAsDescribed
    /\ (FromEncoder /\ payload.params.lock_dims /\ SingleColour)
          => payload.pixels_rle = << <<image.width * image.height, 0>> >>

\* With the default source tag and an ordinary file name the rebuild is exact.
ExactRebuildPlainCaller ==
    /\ (FromEncoder /\ PlainCaller /\ pc = "decoded") => RebuiltAsDescribed
    /\ (FromEncoder /\ payload.params.lock_dims /\ SingleColour)
          => payload.pixels_rle = << <<image.width * image.height, 0>> >>

\* The encoder's manifest of a source tag that holds "}" and JSON_END does
\* not decode.
SourceTagBreaksDecode ==
    /\ FromEncoder /\ pc = "decoded"
    /\ payload.source = <<"}", "JSON_END">>
    /\ out.status = "JSONDecodeError"

\* C7: decode fails when the pixel runs do not add up to width times height,
\* and fails when an alpha run list is present and does not add up to it;
\* it never succeeds on a payload whose pixel or alpha run total disagrees
\* with the declared size.
C7_LengthChecks ==
    (/\ pc = "decoded"
     /\ \/ RunTotal(payload.pixels_rle) # DeclaredPixels
        \/ ~payload.alpha_rle.null /\ RunTotal(payload.alpha_rle.runs) # DeclaredPixels)
    => out.status # "ok"

\* The same, for the payloads whose alpha run list is absent or not empty.
LengthChecksUnlessAlphaEmpty ==
    (/\ pc = "decoded"
     /\ payload.alpha_rle.null \/ payload.alpha_rle.runs # <<>>
     /\ \/ RunTotal(payload.pixels_rle) # DeclaredPixels
        \/ ~payload.alpha_rle.null /\ RunTotal(payload.alpha_rle.runs) # DeclaredPixels)
    => out.status # "ok"

\* A payload with an empty alpha run list decodes to an RGB image.
EmptyAlphaListDecodes ==
    /\ Crafted /\ pc = "decoded"
    /\ ~payload.alpha_rle.null /\ payload.alpha_rle.runs = <<>>
    /\ DeclaredPixels >= 1
    /\ out.status = "ok" /\ out.mode = "RGB"

\* =========================================================================
\* 4) LOSSY-NLP (description and proxy image)
\* =========================================================================
SwatchMin == 10
MaxSwatches == 8
White == <<255, 255, 255>>
FallbackHex == _rgb_to_hex(<<204, 204, 204>>)

\* How often x occurs in s.
RECURSIVE Count(_, _)
Count(x, s) == IF s = <<>> THEN 0 ELSE (IF Head(s) = x THEN 1 ELSE 0) + Count(x, Tail(s))

\* sorted(counts.items(), key=count, reverse=True): by falling count, equal
\* counts in the order the indices were first met.
RECURSIVE ByCount(_, _)
ByCount(keys, idxs) ==
    IF keys = <<>> THEN <<>>
    ELSE LET best == CHOOSE i \in 1..Len(keys) :
                        /\ \A j \in 1..Len(keys) : Count(keys[j], idxs) <= Count(keys[i], idxs)
                        /\ \A j \in 1..(i - 1) : Count(keys[j], idxs) < Count(keys[i], idxs)
         IN  << keys[best] >>
             \o ByCount(SubSeq(keys, 1, best - 1) \o SubSeq(keys, best + 1, Len(keys)), idxs)

\* _dominant_palette_via_quantize(img, k): the palette entries by falling
\* pixel count, at most k of them.
_dominant_palette_via_quantize(pixels, k) ==
    LET q == Quantize(pixels, k)
        order == ByCount(DistinctInOrder(q.idxs, <<>>), q.idxs)
        n == Min(k, Len(order))
    IN  [i \in 1..n |-> q.palette[order[i] + 1]]

\* The four boxes (x0, y0, x1, y1) of encode_lossy_nlp_to_text, in the
\* order top_left, top_right, bottom_left, bottom_right.
QuadNames == <<"top_left", "top_right", "bottom_left", "bottom_right">>

\* Quads, but the middle is rounded up.
QuadsRoundUp(w, h) ==
    << <<0, 0, (w + 1) \div 2, (h + 1) \div 2>>,
       <<(w + 1) \div 2, 0, w, (h + 1) \div 2>>,
       <<0, (h + 1) \div 2, (w + 1) \div 2, h>>,
       <<(w + 1) \div 2, (h + 1) \div 2, w, h>> >>

Quads(w, h) ==
    << <<0, 0, w \div 2, h \div 2>>,
       <<w \div 2, 0, w, h \div 2>>,
       <<0, h \div 2, w \div 2, h>>,
       <<w \div 2, h \div 2, w, h>> >>

\* img.crop(box): the pixels with x0 <= x < x1 and y0 <= y < y1, row-major.
Crop(img, box) ==
    LET cw == box[3] - box[1]
        ch == box[4] - box[2]
    IN  [i \in 1..(cw * ch) |->
            img.pixels[(box[2] + (i - 1) \div cw) * img.width + box[1] + ((i - 1) % cw) + 1]]

QuadHex(img, box) ==
    LET pal == _dominant_palette_via_quantize(Crop(img, box), 1)
    IN  IF pal # <<>> THEN _rgb_to_hex(pal[1]) ELSE FallbackHex

\* rw, rh of the render target.
RenderTarget(w, h, preserve_dims, target_short_side) ==
    IF preserve_dims THEN <<w, h>>
    ELSE IF w >= h
         THEN << Max(1, RoundHalfEven(target_short_side * w, h)), target_short_side >>
         ELSE << target_short_side, Max(1, RoundHalfEven(target_short_side * h, w)) >>

\* The description of encode_lossy_nlp_to_text.  The brightness and contrast
\* figures of ImageStat are written but read by no decoder; they stand as
\* one opaque member.
NlpDesc(img, source, preserve_dims, target_short_side, palette_probe) ==
    LET rt == RenderTarget(img.width, img.height, preserve_dims, target_short_side)
        dom == _dominant_palette_via_quantize(img.pixels, palette_probe)
    IN  [schema |-> "LOSSY-IMAGE-DESCRIPTION v2",
         source |-> source,
         dimensions |-> [width_px |-> img.width, height_px |-> img.height],
         render_target |-> [width_px |-> rt[1], height_px |-> rt[2],
                            preserve_original_dims |-> preserve_dims],
         dominant_hex |-> [i \in 1..Len(dom) |-> _rgb_to_hex(dom[i])],
         quadrants_hex |-> [i \in 1..4 |-> QuadHex(img, Quads(img.width, img.height)[i])]]

\* json.dumps(desc, indent=2); the members of a nested object are written
\* under the path of their keys.
QuadKey(name) ==
    CASE name = "top_left" -> "\"colors.quadrants_hex.top_left\":"
      [] name = "top_right" -> "\"colors.quadrants_hex.top_right\":"
      [] name = "bottom_left" -> "\"colors.quadrants_hex.bottom_left\":"
      [] name = "bottom_right" -> "\"colors.quadrants_hex.bottom_right\":"

nlp_json_dumps(p) ==
    << Line(<<"{">>, <<>>),
       Line(<<"\"schema\":", p.schema>>, <<>>),
       Line(<<"\"source\":">> \o p.source, <<>>),
       Line(<<"\"dimensions\":">>, <<p.dimensions.width_px, p.dimensions.height_px>>),
       Line(<<"\"render_target\":">>,
            <<p.render_target.width_px, p.render_target.height_px,
              Flag(p.render_target.preserve_original_dims)>>),
       Line(<<"\"colors\":", "object">>, <<>>),
       Line(<<"\"colors.dominant_hex\":">>, Flatten(p.dominant_hex)),
       Line(<<"\"colors.quadrants_hex\":", "object">>, <<>>) >>
    \o [i \in 1..4 |-> Line(<<QuadKey(QuadNames[i])>>, p.quadrants_hex[i])]
    \o << Line(<<"\"appearance\":", "object">>, <<>>),
          Line(<<"\"composition_hints\":", "list">>, <<>>),
          Line(<<"}">>, <<>>) >>

NlpText(p, basename) ==
    << Line(<<"LOSSY-NLP DESCRIPTION v2">>, <<>>),
       Line(<<"note: deterministic textual description; proxy renderer uses render_target dims.">>, <<>>),
       Line(<<"filename:">> \o basename, <<>>),
       Blank,
       Line(<<"JSON_START">>, <<>>) >>
    \o nlp_json_dumps(p)
    \o << Line(<<"JSON_END">>, <<>>) >>

AcceptedNlpSchemas == {"LOSSY-IMAGE-DESCRIPTION v2", "LOSSY-IMAGE-DESCRIPTION v1"}

\* draw.rectangle(box, fill): both corners of the box are painted.
InRect(x, y, r) == r.box[1] <= x /\ x <= r.box[3] /\ r.box[2] <= y /\ y <= r.box[4]

\* The pixels of a W x H canvas, white, after the rectangles were drawn in order.
Paint(W, H, rects) ==
    [i \in 1..(W * H) |->
        LET x == (i - 1) % W
            y == (i - 1) \div W
            hits == {k \in 1..Len(rects) : InRect(x, y, rects[k])}
        IN  IF hits = {} THEN White
            ELSE rects[CHOOSE k \in hits : \A j \in hits : j <= k].fill]

\* The proxy decoder from the schema check on, given the payload.
NlpFromPayload(obj) ==
    LET W == obj["\"render_target\":"].d[1]
        H == obj["\"render_target\":"].d[2]
        domAll == Groups(obj["\"colors.dominant_hex\":"].d, 6)
        dom == SubSeq(domAll, 1, Min(MaxSwatches, Len(domAll)))
        quadRects ==
            [i \in 1..4 |->
                [box |-> Quads(W, H)[i],
                 fill |-> HexToRgb(IF Has(obj, QuadKey(QuadNames[i]))
                                   THEN obj[QuadKey(QuadNames[i])].d ELSE FallbackHex)]]
        sw == Max(SwatchMin, W \div Len(dom))
        y0 == Max(0, H - sw)
        swatches ==
            [i \in 1..Len(dom) |->
                [box |-> <<(i - 1) * sw, y0, i * sw, H>>, fill |-> HexToRgb(dom[i])]]
    IN  IF ~(Has(obj, "\"schema\":") /\ obj["\"schema\":"].d = <<>>
             /\ Len(obj["\"schema\":"].w) = 1
             /\ obj["\"schema\":"].w[1] \in AcceptedNlpSchemas)
        THEN AlgoFailed("Unsupported NLP schema.")
        ELSE IF ~Has(obj, "\"render_target\":") \/ ~Has(obj, "\"colors\":")
                \/ ~Has(obj, "\"colors.quadrants_hex\":") \/ ~Has(obj, "\"colors.dominant_hex\":")
             THEN AlgoFailed("KeyError")
        ELSE [status |-> "ok", size |-> <<W, H>>, mode |-> "RGB",
              pixels |-> Paint(W, H, quadRects \o swatches), alpha |-> <<>>]

NlpFromLoaded(loaded) ==
    IF ~loaded.ok THEN AlgoFailed("JSONDecodeError") ELSE NlpFromPayload(loaded.obj)

NlpFromMatch(m) ==
    IF m = <<>> THEN AlgoFailed("JSON payload not found.") ELSE NlpFromLoaded(json_loads(m))

\* decode_lossy_nlp_text_to_proxy_image
decode_lossy_nlp_text_to_proxy_image(text) == NlpFromMatch(JsonSearch(Tokens(text)))

\* =========================================================================
\* 5) SERVICE: tier sniffing and the decode endpoints
\* =========================================================================
MaxLines == 5

Tiers == {"lossless", "lossy-algo", "lossy-nlp"}
HeaderLiterals == {"LOSSLESS MANIFEST v2", "LOSSY-ALGO MANIFEST v2", "LOSSY-NLP DESCRIPTION v2"}
SchemaTag == "LOSSY-IMAGE-DESCRIPTION v2"
Unrecognized == "Unrecognized text schema. Expected v2 headers."
TextMimes == {"text/plain", "application/json", "application/octet-stream"}

\* txt.strip().splitlines(): the lines without the blank ones that lead and trail.
RECURSIVE DropLeadingBlank(_)
DropLeadingBlank(text) ==
    IF text # <<>> /\ Head(text) = Blank THEN DropLeadingBlank(Tail(text)) ELSE text

RECURSIVE DropTrailingBlank(_)
DropTrailingBlank(text) ==
    IF text # <<>> /\ text[Len(text)] = Blank
    THEN DropTrailingBlank(SubSeq(text, 1, Len(text) - 1)) ELSE text

HeadLines(text) ==
    LET ls == DropTrailingBlank(DropLeadingBlank(text))
    IN  SubSeq(ls, 1, Min(4, Len(ls)))

\* literal in head
Contains(lines, literal) ==
    \E i \in 1..Len(lines) : \E j \in 1..Len(lines[i].w) : lines[i].w[j] = literal

\* json.dumps(head) writes a backslash before every double quote.
EscapeQuotes(w) == IF w = "\"schema\":" THEN "\\\"schema\\\":" ELSE w
JsonDumpsHead(lines) ==
    [i \in 1..Len(lines) |->
        Line([j \in 1..Len(lines[i].w) |-> EscapeQuotes(lines[i].w[j])], lines[i].d)]

\* re.search("schema"\s*:\s*"LOSSY-IMAGE-DESCRIPTION v2", ..)
SchemaTagSearch(lines) ==
    \E i \in 1..Len(lines) : \E j \in 1..(Len(lines[i].w) - 1) :
        lines[i].w[j] = "\"schema\":" /\ lines[i].w[j + 1] = SchemaTag

\* _sniff_text_mode, but text without a header is taken for a description.
SniffBestEffort(txt) ==
    LET head == HeadLines(txt)
    IN  IF Contains(head, "LOSSLESS MANIFEST v2") THEN "lossless"
        ELSE IF Contains(head, "LOSSY-ALGO MANIFEST v2") THEN "lossy-algo"
        ELSE "lossy-nlp"

\* _sniff_text_mode: the tier, or "unrecognized" for HTTPException(400).
_sniff_text_mode(txt) ==
    LET head == HeadLines(txt)
    IN  IF Contains(head, "LOSSLESS MANIFEST v2") THEN "lossless"
        ELSE IF Contains(head, "LOSSY-ALGO MANIFEST v2") THEN "lossy-algo"
        ELSE IF Contains(head, "LOSSY-NLP DESCRIPTION v2") THEN "lossy-nlp"
        ELSE IF SchemaTagSearch(JsonDumpsHead(head)) THEN "lossy-nlp"
        ELSE "unrecognized"

\* The decoder of a tier on a text, and the file it writes under /tmp.
Dispatch(mode, txt) ==
    CASE mode = "lossless" -> decode_lossless_manifest_to_image(txt)
      [] mode = "lossy-algo" -> decode_lossy_algo_text_to_image(txt)
      [] mode = "lossy-nlp" -> decode_lossy_nlp_text_to_proxy_image(txt)

OutFile(mode, o) ==
    CASE mode = "lossless" -> [name |-> o.filename, bytes |-> o.bytes]
      [] mode = "lossy-algo" -> [name |-> <<"rebuilt_lossy_algo_v3.png">>, image |-> o]
      [] mode = "lossy-nlp" -> [name |-> <<"rebuilt_lossy_nlp_proxy_v3.png">>, image |-> o]

\* What the handlers do from the sniffing on: [status, detail, invoked, out].
\* A decoder's exception is not caught: the framework answers 500.
SniffAndDecode(txt) ==
    LET mode == _sniff_text_mode(txt)
        o == Dispatch(mode, txt)
    IN  IF mode = "unrecognized"
        THEN [status |-> 400, detail |-> Unrecognized, invoked |-> "none", out |-> NoOutcome]
        ELSE IF o.status = "ok"
        THEN [status |-> 200, detail |-> "image/png", invoked |-> mode, out |-> o]
        ELSE [status |-> 500, detail |-> o.status, invoked |-> mode, out |-> o]

Rejected(detail) == [status |-> 400, detail |-> detail, invoked |-> "none", out |-> NoOutcome]

\* The text is the empty string.
IsEmptyText(text) == text = <<>> \/ text = << Blank >>

\* bytes.decode("utf-8", errors="replace") of a body that ends in a byte
\* which is no UTF-8: the text, then U+FFFD.
Replaced(text) ==
    IF IsEmptyText(text) THEN << Line(<<"U+FFFD">>, <<>>) >>
    ELSE [text EXCEPT ![Len(text)].w = Append(@, "U+FFFD")]

\* POST /decode_text
decode_text(text, valid_utf8) ==
    IF IsEmptyText(text) /\ valid_utf8 THEN Rejected("Empty body")
    ELSE IF ~valid_utf8 THEN Rejected("Body must be UTF-8 text")
    ELSE SniffAndDecode(text)

\* POST /decode
decode_upload(text, content_type, valid_utf8) ==
    IF content_type \notin TextMimes THEN Rejected("Unsupported text mime")
    ELSE SniffAndDecode(IF valid_utf8 THEN text ELSE Replaced(text))

\* ------------------------------------------------------- service: actions
DefaultShortSide == 512
DefaultProbe == 8

ServiceBlob == <<65, 255>>
ServiceImage ==
    [width |-> 2, height |-> 2, mode |-> "RGB",
     pixels |-> << <<18, 52, 86>>, <<0, 0, 0>>, <<18, 52, 86>>, <<18, 52, 86>> >>,
     alpha |-> <<>>]

\* File names and source tags of the caller's choice, among them the header
\* strings themselves.
FileNames ==
    { <<"upload.png">>,
      <<"LOSSLESS MANIFEST v2", ".png">>,
      <<"LOSSY-ALGO MANIFEST v2", ".png">>,
      <<"LOSSY-NLP DESCRIPTION v2", ".png">> }
SourceTags == { DefaultSource, <<"LOSSLESS MANIFEST v2">>, <<"LOSSY-ALGO MANIFEST v2">> }

\* Texts no encoder wrote: lines of prose, blank lines, lines that hold a
\* header string, and a JSON member line with the description schema tag.
TextLines ==
    { Blank,
      Line(<<"hello", "world">>, <<>>),
      Line(<<"LOSSLESS MANIFEST v2">>, <<>>),
      Line(<<"see", "LOSSY-ALGO MANIFEST v2">>, <<>>),
      Line(<<"LOSSY-NLP DESCRIPTION v2">>, <<>>),
      Line(<<"\"schema\":", SchemaTag>>, <<>>) }
Texts == NonEmptySeqs(TextLines, MaxLines)

ContentTypes == {"text/plain", "image/png"}

NoRequest == [origin |-> "", name |-> <<>>, endpoint |-> "", content_type |-> "",
              valid_utf8 |-> TRUE]
NoResponse == [status |-> 0, detail |-> "", body |-> <<>>]

ServiceInit ==
    /\ CommonStart /\ LosslessIdle /\ RleIdle /\ AlgoIdle /\ StagingIdle
    /\ request = NoRequest /\ response = NoResponse /\ invoked = "none"

\* The manifest of a tier's encoder for a file of the given name.
EncodeTier(tier, name, source, pal_len) ==
    CASE tier = "lossless" ->
            encode_lossless_to_manifest(ServiceBlob, source, name, SoftwareNone, <<>>, <<>>,
                                        MaxChunk, MaxWidth)
      [] tier = "lossy-algo" ->
            AlgoText(AlgoPayload(ServiceImage, source, TRUE, DefaultMaxSide, MaxPalette,
                                 <<ServiceImage.width, ServiceImage.height>>,
                                 ServiceImage.pixels, <<>>, pal_len), name)
      [] tier = "lossy-nlp" ->
            NlpText(NlpDesc(ServiceImage, source, TRUE, DefaultShortSide, DefaultProbe), name)

\* A client holds the manifest one of the three encoders returned.
EncodeForService ==
    /\ pc = "start"
    /\ \E tier \in Tiers, name \in FileNames, source \in SourceTags :
       \E pal_len \in GetPaletteLens(Len(Quantize(ServiceImage.pixels, MaxPalette).palette)) :
          /\ manifest_text' = EncodeTier(tier, name, source, pal_len)
          /\ request' = [NoRequest EXCEPT !.origin = tier, !.name = name]
    /\ pc' = "have_text"
    /\ UNCHANGED <<out, written, response, invoked>>
    /\ UNCHANGED <<losslessVars, rleVars, algoVars, stagingVars>>

\* A client holds a text that is no manifest.
ArbitraryText ==
    /\ pc = "start"
    /\ \E t \in Texts : manifest_text' = t
    /\ request' = [NoRequest EXCEPT !.origin = "arbitrary"]
    /\ pc' = "have_text"
    /\ UNCHANGED <<out, written, response, invoked>>
    /\ UNCHANGED <<losslessVars, rleVars, algoVars, stagingVars>>

\* The handler's result as the state after the request.
Respond(r) ==
    /\ invoked' = r.invoked
    /\ out' = r.out
    /\ written' = IF r.status = 200 THEN Append(written, OutFile(r.invoked, r.out)) ELSE written
    /\ response' = [status |-> r.status, detail |-> r.detail,
                    body |-> IF r.status = 200 THEN OutFile(r.invoked, r.out) ELSE <<>>]
    /\ pc' = "responded"
    /\ UNCHANGED <<manifest_text, losslessVars, rleVars, algoVars, stagingVars>>

\* POST /decode_text with the text as the body.
PostDecodeText ==
    /\ pc = "have_text"
    /\ \E valid \in BOOLEAN :
          /\ request' = [request EXCEPT !.endpoint = "/decode_text",
                                        !.content_type = "text/plain", !.valid_utf8 = valid]
          /\ \E r \in {decode_text(manifest_text, valid)} : Respond(r)

\* POST /decode with the text as the uploaded file.
PostDecode ==
    /\ pc = "have_text"
    /\ \E ct \in ContentTypes, valid \in BOOLEAN :
          /\ request' = [request EXCEPT !.endpoint = "/decode",
                                        !.content_type = ct, !.valid_utf8 = valid]
          /\ \E r \in {decode_upload(manifest_text, ct, valid)} : Respond(r)

ServiceNext == EncodeForService \/ ArbitraryText \/ PostDecodeText \/ PostDecode

SpecService == ServiceInit /\ [][ServiceNext]_vars

\* -------------------------------------------------------- service: claims
HaveText == pc \in {"have_text", "responded"}
\* The request reached the sniffing: a body of valid UTF-8 that /decode_text
\* does not find empty, an upload of an accepted content type.
WellFormed == request.valid_utf8 /\ request.content_type \in TextMimes
NameHasHeader == \E lit \in HeaderLiterals : \E j \in 1..Len(request.name) : request.name[j] = lit

\* C8: for every manifest the encoder of a tier produces, for any file name
\* and source tag, _sniff_text_mode returns that tier, and the decode
\* endpoints dispatch to that tier's decoder.
C8_SniffAgrees ==
    (HaveText /\ request.origin \in Tiers) =>
        /\ _sniff_text_mode(manifest_text) = request.origin
        /\ (pc = "responded" /\ WellFormed) => invoked = request.origin

\* The same for file names that hold no header string, whatever the source tag.
SniffAgreesPlainName ==
    (HaveText /\ request.origin \in Tiers /\ ~NameHasHeader) =>
        /\ _sniff_text_mode(manifest_text) = request.origin
        /\ (pc = "responded" /\ WellFormed) => invoked = request.origin

\* A lossy manifest of a file named after the lossless header went to the
\* lossless decoder, which failed on it.
LossyNameSniffedLossless ==
    /\ pc = "responded" /\ WellFormed
    /\ request.origin \in {"lossy-algo", "lossy-nlp"}
    /\ request.name = <<"LOSSLESS MANIFEST v2", ".png">>
    /\ invoked = "lossless"
    /\ response.status = 500

NoKnownHeader == \A lit \in HeaderLiterals : ~Contains(HeadLines(manifest_text), lit)
NoSchemaTag == ~SchemaTagSearch(manifest_text)
NothingDecoded == invoked = "none" /\ out = NoOutcome /\ written = <<>>

\* C9 as stated: a text with none of the three header strings in its
\* leading lines and no description schema tag, the empty string among
\* them, fails with the unrecognized-schema error before any decoder runs.
C9_UnrecognizedSchemaError ==
    (pc = "responded" /\ WellFormed /\ NoKnownHeader /\ NoSchemaTag) =>
        /\ response.status = 400
        /\ response.detail = Unrecognized
        /\ NothingDecoded

\* C9: a text with none of the three header strings in its leading lines
\* and no description schema tag is rejected with status 400 before any
\* decoder runs and nothing is written; the error is the unrecognized-schema
\* one, but for the empty body on /decode_text, which is "Empty body".
C9_RejectedBeforeDecoding ==
    (pc = "responded" /\ WellFormed /\ NoKnownHeader /\ NoSchemaTag) =>
        /\ response.status = 400
        /\ response.detail =
              (IF request.endpoint = "/decode_text" /\ IsEmptyText(manifest_text)
               THEN "Empty body" ELSE Unrecognized)
        /\ NothingDecoded

\* C9's case: prose whose fifth line holds a header string was uploaded and
\* refused as unrecognized.
C9_Witness ==
    /\ pc = "responded" /\ WellFormed
    /\ request.endpoint = "/decode"
    /\ Len(manifest_text) = 5
    /\ \A i \in 1..4 : manifest_text[i] = Line(<<"hello", "world">>, <<>>)
    /\ manifest_text[5] = Line(<<"LOSSLESS MANIFEST v2">>, <<>>)
    /\ response.status = 400 /\ response.detail = Unrecognized
    /\ NothingDecoded

\* =========================================================================
\* 6) SERVICE: the staging files of concurrent requests
\* =========================================================================
\* The handlers are coroutines of one event loop per server process.  From
\* opening the staging file to reading it back a handler awaits nothing, so
\* within one process that stretch runs alone; server processes of one host
\* share /tmp and run side by side.
NumRequests == 2
NumWorkers == 2

Requests == 1..NumRequests
Workers == 1..NumWorkers

\* What a request stages: /encode_octet and /encode the uploaded bytes, the
\* decode endpoints the image their decoder rebuilt.
StagingKinds == {"/encode_octet", "/encode image/png", "/encode image/jpeg", "/decode_text"}

\* tmp_path of the handlers, out_path of the lossy-algo decoder.
StagePath(kind) ==
    CASE kind = "/encode_octet" -> "/tmp/upload.png"
      [] kind = "/encode image/png" -> "/tmp/upload.png"
      [] kind = "/encode image/jpeg" -> "/tmp/upload.jpg"
      [] kind = "/decode_text" -> "/tmp/rebuilt_lossy_algo_v3.png"

StagePaths == {StagePath(k) : k \in StagingKinds}

\* The bytes a request brought: no two requests bring the same.
OwnBytes(r) == << r >>

\* What is computed from the bytes read back; nothing can be made of an
\* empty file.
Computed(content) ==
    IF content = <<>> THEN [status |-> 500, from |-> <<>>]
                      ELSE [status |-> 200, from |-> content]

IdleRequest == [kind |-> "", worker |-> 0, at |-> "idle", result |-> [status |-> 0, from |-> <<>>]]

StagingInit ==
    /\ CommonStart /\ LosslessIdle /\ RleIdle /\ AlgoIdle /\ ServiceIdle
    /\ tmp_file = [p \in StagePaths |-> <<>>]
    /\ reqs = [r \in Requests |-> IdleRequest]

\* The stretch of a handler that runs without awaiting.
InSyncStretch(r) == reqs[r].at \in {"opened", "written"}
WorkerFree(w, r) == \A q \in Requests \ {r} : ~(reqs[q].worker = w /\ InSyncStretch(q))

StagingFrame == UNCHANGED <<commonVars, losslessVars, rleVars, algoVars, serviceVars>>

\* A request comes in at a worker; its body is read and found valid.
Arrive(r) ==
    /\ reqs[r].at = "idle"
    /\ \E k \in StagingKinds, w \in Workers :
          reqs' = [reqs EXCEPT ![r] = [@ EXCEPT !.kind = k, !.worker = w, !.at = "received"]]
    /\ UNCHANGED tmp_file
    /\ StagingFrame

\* open(tmp_path, "wb"): the file is there and empty.
OpenStaging(r) ==
    /\ reqs[r].at = "received"
    /\ WorkerFree(reqs[r].worker, r)
    /\ tmp_file' = [tmp_file EXCEPT ![StagePath(reqs[r].kind)] = <<>>]
    /\ reqs' = [reqs EXCEPT ![r].at = "opened"]
    /\ StagingFrame

\* f.write(data) and the close.
WriteStaging(r) ==
    /\ reqs[r].at = "opened"
    /\ tmp_file' = [tmp_file EXCEPT ![StagePath(reqs[r].kind)] = OwnBytes(r)]
    /\ reqs' = [reqs EXCEPT ![r].at = "written"]
    /\ StagingFrame

\* The file is read back, by the encoder or by the handler, and the
\* response is made of what was read.
ReadStaging(r) ==
    /\ reqs[r].at = "written"
    /\ reqs' = [reqs EXCEPT ![r] = [@ EXCEPT !.at = "done",
                                    !.result = Computed(tmp_file[StagePath(reqs[r].kind)])]]
    /\ UNCHANGED tmp_file
    /\ StagingFrame

StagingNext ==
    \E r \in Requests : Arrive(r) \/ OpenStaging(r) \/ WriteStaging(r) \/ ReadStaging(r)

SpecStaging == StagingInit /\ [][StagingNext]_vars

\* C10: under any interleaving of concurrent requests, what is returned to
\* a request is computed from that request's own bytes, never from bytes
\* another request in flight wrote.
C10_StagingIsolation ==
    \A r \in Requests :
        reqs[r].at = "done" => reqs[r].result = [status |-> 200, from |-> OwnBytes(r)]

\* Requests that one server process handles, and requests that stage under
\* different paths, do get their own bytes back.
IsolatedWithinWorkerOrPath ==
    \A r \in Requests :
        (/\ reqs[r].at = "done"
         /\ \A q \in Requests \ {r} :
               \/ reqs[q].at = "idle"
               \/ reqs[q].worker = reqs[r].worker
               \/ StagePath(reqs[q].kind) # StagePath(reqs[r].kind))
        => reqs[r].result = [status |-> 200, from |-> OwnBytes(r)]

\* A request was answered with what was computed from another request's bytes.
AnsweredFromForeignBytes ==
    \E r \in Requests, q \in Requests :
        /\ q # r
        /\ reqs[r].at = "done"
        /\ reqs[r].result = [status |-> 200, from |-> OwnBytes(q)]
        /\ reqs[r].worker # reqs[q].worker


\* =========================================================================
\* 7) THE DECODERS ON MANIFESTS NO ENCODER WROTE
\* =========================================================================
MaxFiles == 2

\* ---------------------------------------------------- lossless manifests
\* A manifest for the bytes content, as the encoder writes it, with each of
\* the header lines filename, sha256 and chunk_count right, wrong or
\* missing, and the first body line cut to one character or not.
Contents == {<<>>, <<65>>, <<65, 255, 65, 65>>}
LineStates == {"right", "wrong", "missing"}
OtherBytes == <<255>>

LosslessCrafts ==
    {c \in [tier : {"lossless"}, content : Contents, filename : BOOLEAN,
            sha256 : LineStates, chunk_count : LineStates, malformed : BOOLEAN] :
        c.malformed => c.content # <<>>}

\* The header line l as the manifest of c holds it: no line, or one line.
CraftedLine(l, c) ==
    IF Len(l.w) = 0 THEN << l >>
    ELSE CASE l.w[1] = "filename:" -> IF c.filename THEN << l >> ELSE <<>>
           [] l.w[1] = "sha256:" ->
                 IF c.sha256 = "right" THEN << l >>
                 ELSE IF c.sha256 = "wrong" THEN << Line(<<"sha256:">>, _sha256(OtherBytes)) >>
                 ELSE <<>>
           [] l.w[1] = "chunk_count:" ->
                 IF c.chunk_count = "right" THEN << l >>
                 ELSE IF c.chunk_count = "wrong" THEN << Line(<<"chunk_count:">>, <<l.d[1] + 1>>) >>
                 ELSE <<>>
           [] OTHER -> << l >>

CraftedLossless(c) ==
    LET base == encode_lossless_to_manifest(c.content, DefaultSource, UploadName,
                                            SoftwareNone, <<>>, <<>>, 4, 2)
        text == Flatten([i \in 1..Len(base) |-> CraftedLine(base[i], c)])
        first == CHOOSE i \in 1..Len(text) : IsMarker(text[i]) /\ text[i].d[1] = 1
    IN  IF c.malformed THEN [text EXCEPT ![first + 1].d = <<16>>] ELSE text

\* What the header of the manifest of c declares and what its body holds.
CraftChunks(c) == CeilDiv(Len(b64encode(c.content)), 4)
CountFault(c) ==
    CraftChunks(c) # (CASE c.chunk_count = "right" -> CraftChunks(c)
                        [] c.chunk_count = "wrong" -> CraftChunks(c) + 1
                        [] c.chunk_count = "missing" -> 0)
DigestFault(c) == c.sha256 # "right"

\* ------------------------------------------------------- lossy manifests
\* The schema tags a payload may carry: the accepted ones of both tiers and
\* a later version of each; "none" is a payload without the member.
SchemaTags ==
    AcceptedAlgoSchemas \cup AcceptedNlpSchemas
        \cup {"IMG-ALGO-LOSSY v3", "LOSSY-IMAGE-DESCRIPTION v3"}

AlgoFields == {"\"result_size\":", "\"palette_rgb_hex\":", "\"pixels_rle\":"}
NlpFields ==
    {"\"render_target\":", "\"colors.dominant_hex\":"} \cup {QuadKey(QuadNames[i]) : i \in 1..4}

\* The text without the lines that start with one of the keys.
DropMembers(text, keys) == SelectSeq(text, LAMBDA l : ~(Len(l.w) >= 1 /\ l.w[1] \in keys))

DroppedKeys(c) ==
    (IF c.schema = "none" THEN {"\"schema\":"} ELSE {})
        \cup (IF c.missing = "none" THEN {} ELSE {c.missing})

\* A lossy-algo manifest of a 1 x 2 image: any schema tag, one required
\* member missing or none, the pixel runs and the alpha runs (if any) of the
\* declared total or one short.
AlgoCrafts ==
    [tier : {"lossy-algo"}, schema : SchemaTags \cup {"none"},
     missing : AlgoFields \cup {"none"}, pixels : {"right", "short"},
     alpha : {"null", "right", "short"}]

CraftedAlgo(c) ==
    LET p == [schema |-> c.schema,
              source |-> DefaultSource,
              original |-> [width |-> 1, height |-> 2, mode |-> "RGB",
                            has_alpha |-> c.alpha # "null"],
              params |-> [lock_dims |-> TRUE, max_side |-> DefaultMaxSide, palette_size |-> 2,
                          resample |-> "bicubic", dither |-> FALSE],
              result_size |-> [width |-> 1, height |-> 2],
              palette_rgb_hex |-> CraftPalette,
              palette_size_actual |-> 2,
              index_bit_depth |-> 1,
              pixels_rle |-> IF c.pixels = "right" THEN << <<2, 0>> >> ELSE << <<1, 0>> >>,
              alpha_rle |-> [null |-> c.alpha = "null",
                             runs |-> CASE c.alpha = "null" -> <<>>
                                        [] c.alpha = "right" -> << <<2, 255>> >>
                                        [] c.alpha = "short" -> << <<1, 255>> >>]]
    IN  DropMembers(AlgoText(p, UploadName), DroppedKeys(c))

\* A description manifest of the 2 x 2 image for a render target of 12 x 12:
\* any schema tag, one required member missing or none.
NlpCrafts ==
    [tier : {"lossy-nlp"}, schema : SchemaTags \cup {"none"}, missing : NlpFields \cup {"none"}]

CraftedNlp(c) ==
    LET p == [NlpDesc(ServiceImage, DefaultSource, FALSE, 12, DefaultProbe)
                 EXCEPT !.schema = c.schema]
    IN  DropMembers(NlpText(p, UploadName), DroppedKeys(c))

\* ---------------------------------------------------------------- actions
DecodersInit ==
    /\ CommonStart /\ LosslessIdle /\ RleIdle /\ AlgoIdle /\ ServiceIdle /\ StagingIdle

\* A caller comes with a manifest of its own making.
Craft(c, text) ==
    /\ pc = "start"
    /\ Len(written) < MaxFiles
    /\ params' = c
    /\ manifest_text' = text
    /\ out' = NoOutcome
    /\ invoked' = "none"
    /\ pc' = "encoded"
    /\ UNCHANGED <<written, image, payload, request, response>>
    /\ UNCHANGED <<losslessVars, rleVars, stagingVars>>

CraftLosslessManifest == \E c \in LosslessCrafts : Craft(c, CraftedLossless(c))
CraftAlgoManifest == \E c \in AlgoCrafts : Craft(c, CraftedAlgo(c))
CraftNlpManifest == \E c \in NlpCrafts : Craft(c, CraftedNlp(c))

\* The call of a tier's decoder on the manifest: the outcome, and the file
\* in output_dir when the call returned.
Called(mode, o) ==
    /\ invoked' = mode
    /\ out' = o
    /\ written' = IF o.status = "ok" THEN Append(written, OutFile(mode, o)) ELSE written
    /\ pc' = "decoded"
    /\ UNCHANGED <<manifest_text, image, params, payload, request, response>>
    /\ UNCHANGED <<losslessVars, rleVars, stagingVars>>

CallLossless ==
    /\ pc = "encoded"
    /\ \E o \in {decode_lossless_manifest_to_image(manifest_text)} : Called("lossless", o)
CallAlgo ==
    /\ pc = "encoded"
    /\ \E o \in {decode_lossy_algo_text_to_image(manifest_text)} : Called("lossy-algo", o)
CallNlp ==
    /\ pc = "encoded"
    /\ \E o \in {decode_lossy_nlp_text_to_proxy_image(manifest_text)} : Called("lossy-nlp", o)

\* The call is over; the files in output_dir stay for the calls to come.
CallerReturns ==
    /\ pc = "decoded"
    /\ pc' = "start"
    /\ manifest_text' = <<>>
    /\ out' = NoOutcome
    /\ params' = <<>>
    /\ invoked' = "none"
    /\ UNCHANGED <<written, image, payload, request, response>>
    /\ UNCHANGED <<losslessVars, rleVars, stagingVars>>

DecodersNext ==
    \/ CraftLosslessManifest \/ CraftAlgoManifest \/ CraftNlpManifest
    \/ CallLossless \/ CallAlgo \/ CallNlp
    \/ CallerReturns

SpecDecoders == DecodersInit /\ [][DecodersNext]_vars

\* ----------------------------------------------------------------- claims
\* A lossy manifest went to a lossy decoder.
LossyToLossy ==
    /\ pc = "decoded"
    /\ params.tier \in {"lossy-algo", "lossy-nlp"}
    /\ invoked \in {"lossy-algo", "lossy-nlp"}

\* C11: the lossy-algo decoder passes the schema tags IMG-ALGO-LOSSY v2 and
\* v1 and no other, the description decoder LOSSY-IMAGE-DESCRIPTION v2 and v1
\* and no other; with any other tag, the other tier's included, or with no
\* tag, the call ends in the decoder's unsupported-schema error whatever else
\* the payload holds or lacks, and there is no image.
C11_SchemaGate ==
    LossyToLossy =>
        LET accepted == IF invoked = "lossy-algo"
                        THEN {"IMG-ALGO-LOSSY v2", "IMG-ALGO-LOSSY v1"}
                        ELSE {"LOSSY-IMAGE-DESCRIPTION v2", "LOSSY-IMAGE-DESCRIPTION v1"}
            refusal == IF invoked = "lossy-algo"
                       THEN "Unsupported schema." ELSE "Unsupported NLP schema."
        IN  IF params.schema \in accepted
            THEN out.status # refusal
            ELSE out.status = refusal /\ out.pixels = <<>> /\ out.size = <<0, 0>>

\* The description decoder was given a lossy-algo manifest that its own
\* decoder rebuilds, and refused it for the tag.
C11_Witness ==
    /\ LossyToLossy
    /\ invoked = "lossy-nlp" /\ params.tier = "lossy-algo"
    /\ params.schema = "IMG-ALGO-LOSSY v2" /\ params.missing = "none"
    /\ params.pixels = "right"
    /\ out.status = "Unsupported NLP schema."

\* The manifest went to the decoder of its tier.
OwnDecoder == pc = "decoded" /\ invoked = params.tier

\* The manifest has every member its decoder reads, under an accepted tag,
\* and its base64 text is whole: what is wrong with it, if anything, is a
\* count, a digest or a run total.
WellShaped(c) ==
    CASE c.tier = "lossless" ->
            c.filename /\ c.sha256 # "missing" /\ c.chunk_count # "missing" /\ ~c.malformed
      [] c.tier = "lossy-algo" -> c.schema \in AcceptedAlgoSchemas /\ c.missing = "none"
      [] c.tier = "lossy-nlp" -> c.schema \in AcceptedNlpSchemas /\ c.missing = "none"

IntegrityOutcomes ==
    {"chunk count mismatch", "SHA-256 mismatch", "Pixel count mismatch.", "Alpha length mismatch."}

\* C12: the outcomes of the integrity failures (chunk count, digest, pixel
\* or alpha run total) are outcomes of nothing else: a manifest of the wrong
\* shape (a text of another kind, a missing member, broken base64) and an
\* unsupported schema tag never end in one of them; and a wrong chunk count
\* and a wrong digest end in different ones.
C12_ErrorKindsDistinct ==
    /\ (pc = "decoded" /\ out.status \in IntegrityOutcomes) =>
           invoked = params.tier /\ WellShaped(params)
    /\ (OwnDecoder /\ params.tier = "lossless" /\ WellShaped(params)) =>
           /\ CountFault(params) => out.status = "chunk count mismatch"
           /\ (~CountFault(params) /\ DigestFault(params)) => out.status = "SHA-256 mismatch"

\* What holds of the integrity outcomes: the two of the lossy-algo decoder
\* are raised only for a well-shaped payload whose runs are short, and a
\* well-shaped lossless manifest ends in the outcome of its own fault.
IntegrityKindsOfWellShaped ==
    /\ (pc = "decoded" /\ out.status \in {"Pixel count mismatch.", "Alpha length mismatch."}) =>
           /\ invoked = "lossy-algo" /\ params.tier = "lossy-algo" /\ WellShaped(params)
           /\ params.pixels = "short" \/ params.alpha = "short"
    /\ (OwnDecoder /\ params.tier = "lossless" /\ WellShaped(params)) =>
           /\ CountFault(params) => out.status = "chunk count mismatch"
           /\ (~CountFault(params) /\ DigestFault(params)) => out.status = "SHA-256 mismatch"

\* A lossless manifest that lacks nothing but its sha256 line ends in the
\* digest mismatch.
ShapeReportedAsCorruption ==
    /\ OwnDecoder /\ params.tier = "lossless"
    /\ params.sha256 = "missing" /\ params.chunk_count = "right"
    /\ params.filename /\ ~params.malformed
    /\ out.status = "SHA-256 mismatch"

\* A required member of the manifest is not there.
RequiredMissing(c) ==
    IF c.tier = "lossless"
    THEN ~c.filename \/ c.sha256 = "missing" \/ c.chunk_count = "missing"
    ELSE c.missing # "none"

\* C13: a manifest that lacks a required member (lossless: the chunk_count,
\* sha256 or filename line; lossy-algo: result_size, palette_rgb_hex or
\* pixels_rle; description: render_target, one of the four quadrant colours
\* or dominant_hex) is never decoded to a file.
C13_NoDefaultSubstitution ==
    (OwnDecoder /\ RequiredMissing(params)) => out.status # "ok" /\ out # NoOutcome

\* The members whose absence is noticed: all but chunk_count and the
\* quadrant colours.
NoDefaultButCountAndQuadrants ==
    (OwnDecoder /\ RequiredMissing(params)) =>
        \/ out.status # "ok"
        \/ params.tier = "lossless" /\ params.chunk_count = "missing" /\ params.content = <<>>
        \/ params.tier = "lossy-nlp" /\ params.missing \in {QuadKey(QuadNames[i]) : i \in 1..4}

\* The description without its top_left colour is rendered with #CCCCCC in
\* that quadrant.
QuadrantDefaulted ==
    /\ OwnDecoder /\ params.tier = "lossy-nlp"
    /\ params.missing = QuadKey("top_left")
    /\ out.status = "ok"
    /\ out.pixels[1] = <<204, 204, 204>>
    /\ written # <<>>

\* The manifest without chunk_count and without blocks is decoded, under
\* the count 0, to an empty file.
ChunkCountDefaulted ==
    /\ OwnDecoder /\ params.tier = "lossless"
    /\ params.chunk_count = "missing" /\ params.filename /\ params.sha256 = "right"
    /\ out.status = "ok" /\ out.bytes = <<>>
    /\ written # <<>>

\* =========================================================================
\* 8) LOSSY-NLP: the encoder and its quadrants
\* =========================================================================
MaxDim == 5

\* The images: every size up to MaxDim x MaxDim, in one colour, with one
\* corner pixel of another colour, or in columns of alternating colour.
Patterns == {"flat", "corner", "stripes"}
PatternImage(w, h, pat) ==
    [width |-> w, height |-> h, mode |-> "RGB",
     pixels |-> [i \in 1..(w * h) |->
                    CASE pat = "flat" -> <<18, 52, 86>>
                      [] pat = "corner" -> IF i = 1 THEN Black ELSE <<18, 52, 86>>
                      [] pat = "stripes" -> IF ((i - 1) % w) % 2 = 0 THEN <<18, 52, 86>> ELSE Black],
     alpha |-> <<>>]
NlpImages == {PatternImage(w, h, pat) : w \in 1..MaxDim, h \in 1..MaxDim, pat \in Patterns}

EmptyBox(box) == box[3] = box[1] \/ box[4] = box[2]

NlpInit ==
    /\ CommonStart /\ LosslessIdle /\ RleIdle /\ AlgoIdle /\ ServiceIdle /\ StagingIdle

\* encode_lossy_nlp_to_text on any image.  The boxes are computed, then each
\* is cropped and quantized; the imaging library's quantize of a crop without
\* pixels either raises, which ends the call, or returns no colour.
EncodeNlp ==
    /\ pc = "start"
    /\ \E img \in NlpImages, preserve_dims \in BOOLEAN, raises \in BOOLEAN :
       LET quads == Quads(img.width, img.height)
       IN  /\ raises => \E i \in 1..4 : EmptyBox(quads[i])
           /\ image' = img
           /\ params' = [quads |-> quads, preserve_dims |-> preserve_dims]
           /\ IF raises
              THEN /\ payload' = <<>>
                   /\ manifest_text' = <<>>
                   /\ pc' = "failed"
              ELSE /\ payload' = NlpDesc(img, DefaultSource, preserve_dims, 2, DefaultProbe)
                   /\ manifest_text' = NlpText(payload', UploadName)
                   /\ pc' = "encoded"
    /\ UNCHANGED <<out, written, losslessVars, rleVars, serviceVars, stagingVars>>

NlpNext == EncodeNlp \/ CallNlp

SpecNlp == NlpInit /\ [][NlpNext]_vars

\* ----------------------------------------------------------------- claims
\* The pixel (x, y) lies in the half-open box.
InBox(x, y, box) == box[1] <= x /\ x < box[3] /\ box[2] <= y /\ y < box[4]

\* C14: the encoder's boxes are (0,0,w//2,h//2), (w//2,0,w,h//2),
\* (0,h//2,w//2,h) and (w//2,h//2,w,h); every pixel of the w x h grid lies
\* in exactly one of them; with an odd width the right boxes are one column
\* wider than the left ones, with an odd height the bottom boxes one row
\* higher than the top ones; an image of 5 x 5 has the boxes (0,0,2,2),
\* (2,0,5,2), (0,2,2,5), (2,2,5,5).
C14_QuadrantBisection ==
    pc # "start" =>
        LET w == image.width
            h == image.height
            q == params.quads
        IN  /\ q = << <<0, 0, w \div 2, h \div 2>>, <<w \div 2, 0, w, h \div 2>>,
                      <<0, h \div 2, w \div 2, h>>, <<w \div 2, h \div 2, w, h>> >>
            /\ \A x \in 0..(w - 1), y \in 0..(h - 1) :
                  Cardinality({i \in 1..4 : InBox(x, y, q[i])}) = 1
            /\ \A i \in 1..4, x \in 0..w, y \in 0..h :
                  InBox(x, y, q[i]) => x < w /\ y < h
            /\ (q[2][3] - q[2][1]) - (q[1][3] - q[1][1]) = w % 2
            /\ (q[4][3] - q[4][1]) - (q[3][3] - q[3][1]) = w % 2
            /\ (q[3][4] - q[3][2]) - (q[1][4] - q[1][2]) = h % 2
            /\ (q[4][4] - q[4][2]) - (q[2][4] - q[2][2]) = h % 2
            /\ (w = 5 /\ h = 5) =>
                  q = << <<0, 0, 2, 2>>, <<2, 0, 5, 2>>, <<0, 2, 2, 5>>, <<2, 2, 5, 5>> >>

\* The 5 x 5 image was encoded, with a colour for each of its four boxes.
C14_Witness ==
    /\ pc = "encoded"
    /\ image.width = 5 /\ image.height = 5
    /\ params.quads[4] = <<2, 2, 5, 5>>
    /\ Len(payload.quadrants_hex) = 4

\* =========================================================================
\* 9) RUN-LENGTH CODEC: runs as long as the cap
\* =========================================================================
\* The input is lead equal values followed by the values of seq.  While the
\* loop of _rle_encode reads the first lead values, lead <= RleCap, it only
\* counts: out is empty, prev the value and cnt the number read.  The
\* encoding of the whole input is the loop over seq from there.
LeadLengths == {1, 2, 3, RleCap - 1, RleCap}

RleFromRun(value, lead, rest) == RleLoop(rest, <<>>, value, lead)

RleLongInit ==
    /\ CommonStart /\ LosslessIdle /\ ServiceIdle /\ StagingIdle
    /\ image = <<>> /\ payload = <<>>
    /\ params \in [lead : LeadLengths, value : RleVals]
    /\ seq \in SeqsUpTo(RleVals, MaxSeq)
    /\ pairs = <<>>
    /\ expanded = <<>>

RleEncodeLong ==
    /\ pc = "start"
    /\ pairs' = RleFromRun(params.value, params.lead, seq)
    /\ pc' = "encoded"
    /\ UNCHANGED <<seq, expanded, manifest_text, out, written>>
    /\ UNCHANGED <<losslessVars, algoVars, serviceVars, stagingVars>>

RleLongNext == RleEncodeLong

SpecRleLong == RleLongInit /\ [][RleLongNext]_vars

\* ----------------------------------------------------------------- claims
\* For the short leads the loop from the counted state gives what
\* _rle_encode gives on the input written out.
CountedStateAgrees ==
    (pc = "encoded" /\ params.lead <= 3) =>
        pairs = _rle_encode(Repeat(params.value, params.lead) \o seq)

\* C15: every pair of _rle_encode's result has a count from 1 to 2^31 - 1,
\* and two neighbours have the same value only if the count of the earlier
\* one is 2^31 - 1.
C15_RleWellFormed ==
    pc = "encoded" =>
        /\ pairs # <<>>
        /\ \A i \in 1..Len(pairs) : 1 <= pairs[i][1] /\ pairs[i][1] <= 2147483647
        /\ \A i \in 1..(Len(pairs) - 1) :
              pairs[i][2] = pairs[i + 1][2] => pairs[i][1] = 2147483647

\* A run of 2^31 + 1 equal values, then another value: the run is split at
\* the cap and the rest of it merged.
C15_Witness ==
    /\ pc = "encoded"
    /\ params.lead = 2147483647
    /\ Len(pairs) = 3
    /\ pairs[1] = <<2147483647, params.value>>
    /\ pairs[2] = <<2, params.value>>
    /\ pairs[3][2] # params.value

\* =========================================================================
\* 10) LOSSLESS: a failed decode
\* =========================================================================
\* The lossless decoder was called on a lossless manifest.
LosslessCalled == pc = "decoded" /\ invoked = "lossless" /\ params.tier = "lossless"

\* C16: the lossless decoder compares the chunk count first, decodes the
\* base64 text next, compares the digest after that and writes the file
\* last: of several faults the earliest in this order is the one reported;
\* and a call that fails leaves the files of output_dir as they were.
C16_FailedDecodeNoEffect ==
    /\ [](LosslessCalled =>
            /\ CountFault(params) => out.status = "chunk count mismatch"
            /\ (~CountFault(params) /\ params.malformed) => out.status = "base64 error"
            /\ (~CountFault(params) /\ ~params.malformed /\ DigestFault(params)) =>
                  out.status = "SHA-256 mismatch"
            /\ (~CountFault(params) /\ ~params.malformed /\ ~DigestFault(params)
                   /\ ~params.filename) => out.status = "no filename"
            /\ (~CountFault(params) /\ ~params.malformed /\ ~DigestFault(params)
                   /\ params.filename) =>
                  /\ out.status = "ok"
                  /\ written # <<>>
                  /\ written[Len(written)] = [name |-> UploadName, bytes |-> params.content])
    /\ [][(CallLossless /\ out'.status # "ok") => written' = written]_vars

\* A manifest with a wrong count, broken base64 and a wrong digest was
\* refused for its count, and the file of an earlier call is still there.
C16_Witness ==
    /\ LosslessCalled
    /\ CountFault(params) /\ params.malformed /\ DigestFault(params)
    /\ out.status = "chunk count mismatch"
    /\ Len(written) = 1
=============================================================================
